---- MODULE Spec2Model ----
(***************************************************************************)
(* The asynchronous video-to-audio pipeline: the gateway's upload()       *)
(* (store then announce, with a compensating delete), the converter's     *)
(* start() (fetch, convert, store, announce, compensate, scratch files)   *)
(* and the notification consumer's callback (ack / nack and metrics).     *)
(*                                                                         *)
(* Every handler is one atomic action.  The remote collaborators (GridFS, *)
(* RabbitMQ, ffmpeg, the mail sender) are inputs of the action: each call  *)
(* to one of them either succeeds or raises, chosen with \E.               *)
(***************************************************************************)
EXTENDS Integers, Sequences, FiniteSets, TLC

\* ------------------------------------------------------------------ bounds
\* number of blob ids the two GridFS stores hand out in one run
MaxBlobs == 4
\* number of messages a queue may hold
MaxQueue == 2
\* number of start() invocations of the converter in one run
MaxRuns == 2
\* a notification may fail only in the first MaxJobs deliveries handled by
\* the notification callback
MaxJobs == 2
\* largest MAX_RETRIES a validation client is configured with, and the
\* number of remote outcomes drawn for one call
MaxRetries == 3
\* number of token() calls started in one run
MaxCalls == 4
\* the clock runs from 0 to MaxTime
MaxTime == 1
\* the /register requests the identity service handles in a behaviour
MaxRegs == 3

\* ------------------------------------------------------------- value sets
\* Python None where a tuple is expected (the return value of upload())
None == <<>>
\* Python None where a string is expected (the return value of start(),
\* the error returned by email.notification)
NoneStr == "None"
\* Python None in the mp3_fid field of a descriptor, and "no blob written"
NoFid == 0
\* a request without a file part
NoFile == [filename |-> "", size |-> 0]

Usernames == {"alice", "bob"}
Files == {[filename |-> "v.mp4", size |-> 10]}
\* the access data handed to upload(): the claims of a validated token, or
\* claims without a username
Accesses == {[username |-> u] : u \in Usernames \cup {""}}

\* ---------------------------------------------------------------- state
VARIABLES
    fs_videos,      \* ids of the blobs in the "videos" GridFS
    fs_mp3s,        \* ids of the blobs in the "mp3s" GridFS
    videoQ,         \* the durable "video" queue (messages not yet acked)
    mp3Q,           \* the durable MP3_QUEUE (messages not yet acked)
    nextId,         \* the next ObjectId a GridFS put returns
    tmpfiles,       \* files present in the converter's temp directory
    converterAlive, \* the converter process has not died of an exception
    JOBS_TOTAL,     \* notification_jobs_total, by result label
    JOB_DURATION,   \* number of observations of the duration histogram
    up,             \* what the last upload() call did
    cv,             \* what the last start() run did
    nb,             \* what the last notification callback did, and the
                    \* history of the deliveries to it
    rt,             \* one call of a validation client: the client, its
                    \* MAX_RETRIES, the request, the remote outcomes, the result
    AUTH_SVC_ADDRESS, \* os.environ.get('AUTH_SVC_ADDRESS'), "" when unset
    TOKEN_CACHE,    \* storage/util.py TOKEN_CACHE: token hash -> entry
    now,            \* datetime.now(), in units of CACHE_DURATION
    th,             \* the gateway threads running storage/util.py token()
    ncalls,         \* number of token() calls started
    lastCached,     \* history: for every token the time its validation was
                    \* last written to the cache, -1 if never
    users,          \* the rows of the identity service's users table
    rg              \* what the last /register request was and got

pipelineVars == <<fs_videos, fs_mp3s, videoQ, mp3Q, nextId, tmpfiles,
                  converterAlive, JOBS_TOTAL, JOB_DURATION, up, cv, nb>>
retryVars == <<rt, AUTH_SVC_ADDRESS>>
tokenVars == <<TOKEN_CACHE, now, th, ncalls, lastCached>>
authVars == <<users, rg>>
vars == <<pipelineVars, retryVars, tokenVars, authVars>>

\* =================================================================
\* gateway: upload()
\* =================================================================
\* outcomes of the calls upload() makes
PutOutcomes == {"ok", "GridFSError", "PyMongoError", "Exception"}
\* queue_declare / basic_publish: done, raised a pika AMQPError, or raised
\* anything else
BrokerOutcomes == {"ok", "AMQPError", "Exception"}
\* fs.delete(fid): the blob is removed; or the call raises and the blob
\* stays; or the blob is gone already when the call is made, and the call
\* raises
DeleteOutcomes == {"ok", "fail", "gone"}
\* one outcome for every call upload() makes; a call that is not reached
\* (after an earlier one raised) has no outcome of its own and is listed "ok"
UploadEnvs ==
    {e \in [put : PutOutcomes, declare : BrokerOutcomes,
            publish : BrokerOutcomes, delete : DeleteOutcomes] :
        /\ (e.put # "ok" => e.declare = "ok")
        /\ (e.declare # "ok" => e.publish = "ok")
        /\ (e.put # "ok" \/ (e.declare = "ok" /\ e.publish = "ok")
               => e.delete = "ok")}

\* what one upload() call did: the value it returned, the blob id it wrote
\* (NoFid if none), the outcome of its put / publish / delete ("none" when
\* the call was not made), the messages it put on the "video" queue and the
\* store it leaves
UploadResult(ret, fid, put, pub, del, sent, fs) ==
    [ret |-> ret, fid |-> fid, put |-> put, pub |-> pub, del |-> del,
     sent |-> sent, fs |-> fs]

\* upload_message that leaves the blob id out of the descriptor
upload_message_no_fid(fid, access, file_obj) ==
    [video_fid |-> NoFid,
     mp3_fid |-> NoFid,
     username |-> access.username,
     original_filename |-> file_obj.filename,
     file_size |-> file_obj.size,
     status |-> "uploaded"]

\* the descriptor upload() builds
upload_message(fid, access, file_obj) ==
    [video_fid |-> fid,
     mp3_fid |-> NoFid,
     username |-> access.username,
     original_filename |-> file_obj.filename,
     file_size |-> file_obj.size,
     status |-> "uploaded"]

\* upload_cleanup that never issues the delete
upload_cleanup_skipped(fs, fid, delete) ==
    fs

\* try: fs.delete(fid) except Exception: log -- the compensating delete.
\* A delete that raises leaves the store as it finds it: with the blob, or
\* without it when the blob was gone already.
upload_cleanup(fs, fid, delete) ==
    IF delete = "fail" THEN fs ELSE fs \ {fid}

\* the first call of "queue_declare; basic_publish" that raises decides
BrokerOutcome(env) ==
    IF env.declare # "ok" THEN env.declare ELSE env.publish

\* upload_publish that reports a failed cleanup in place of the publish
\* failure
upload_publish_cleanup_error(message, fs, fid, env) ==
    CASE BrokerOutcome(env) = "ok" ->
            UploadResult(None, fid, "ok", "ok", "none", <<message>>, fs)
      [] BrokerOutcome(env) # "ok" /\ env.delete = "fail" ->
            UploadResult(<<"Failed to clean up file", 500>>, fid, "ok",
                         "fail", env.delete, <<>>, fs)
      [] OTHER ->
            UploadResult(<<"Failed to queue processing job", 500>>, fid, "ok",
                         "fail", env.delete, <<>>,
                         upload_cleanup(fs, fid, env.delete))

\* upload_publish that takes a blob that is gone already for a job that was
\* queued, and reports success
upload_publish_gone_succeeds(message, fs, fid, env) ==
    CASE BrokerOutcome(env) = "ok" ->
            UploadResult(None, fid, "ok", "ok", "none", <<message>>, fs)
      [] BrokerOutcome(env) # "ok" /\ env.delete = "gone" ->
            UploadResult(None, fid, "ok", "fail", env.delete, <<>>,
                         upload_cleanup(fs, fid, env.delete))
      [] OTHER ->
            UploadResult(<<"Failed to queue processing job", 500>>, fid, "ok",
                         "fail", env.delete, <<>>,
                         upload_cleanup(fs, fid, env.delete))

\* upload_publish whose AMQPError handler cleans up but falls through to the
\* success return
upload_publish_no_return(message, fs, fid, env) ==
    CASE BrokerOutcome(env) = "ok" ->
            UploadResult(None, fid, "ok", "ok", "none", <<message>>, fs)
      [] BrokerOutcome(env) = "AMQPError" ->
            UploadResult(None, fid, "ok", "fail", env.delete, <<>>,
                         upload_cleanup(fs, fid, env.delete))
      [] OTHER ->
            UploadResult(<<"Internal server error", 500>>, fid, "ok",
                         "fail", env.delete, <<>>,
                         upload_cleanup(fs, fid, env.delete))

\* The publish step of upload() and its handlers.  An AMQPError is caught by
\* the first handler.  For any other exception Python evaluates the next
\* handler's expression, json.JSONEncodeError, which does not exist: the
\* AttributeError leaves the inner try and is caught by the outer
\* "except Exception", whose emergency cleanup deletes the blob (fid is set).
upload_publish(message, fs, fid, env) ==
    CASE BrokerOutcome(env) = "ok" ->
            UploadResult(None, fid, "ok", "ok", "none", <<message>>, fs)
      [] BrokerOutcome(env) = "AMQPError" ->
            UploadResult(<<"Failed to queue processing job", 500>>, fid, "ok",
                         "fail", env.delete, <<>>,
                         upload_cleanup(fs, fid, env.delete))
      [] OTHER ->
            UploadResult(<<"Internal server error", 500>>, fid, "ok",
                         "fail", env.delete, <<>>,
                         upload_cleanup(fs, fid, env.delete))

\* which of upload()'s preconditions the arguments of a call break: the
\* file is missing, the access data have no username, or none
upload_precondition(file_obj, access) ==
    IF file_obj = NoFile THEN "no file"
    ELSE IF access.username = "" THEN "no username"
    ELSE "ok"

\* upload that stores the file before it looks at the access data
upload_stores_before_checks(file_obj, access, fs, newId, env) ==
    CASE file_obj = NoFile ->
            UploadResult(<<"No file provided", 400>>, NoFid, "none", "none",
                         "none", <<>>, fs)
      [] file_obj # NoFile /\ access.username = "" ->
            UploadResult(<<"Invalid user access data", 400>>, newId, "ok",
                         "none", "none", <<>>, fs \cup {newId})
      [] OTHER ->
            IF env.put # "ok"
            THEN UploadResult(<<"Failed to store file", 500>>, NoFid, "fail",
                              "none", "none", <<>>, fs)
            ELSE upload_publish(upload_message(newId, access, file_obj),
                                fs \cup {newId}, newId, env)

\* upload that goes on to publish a descriptor after a failed put
upload_put_failure_publishes(file_obj, access, fs, newId, env) ==
    CASE file_obj = NoFile ->
            UploadResult(<<"No file provided", 400>>, NoFid, "none", "none",
                         "none", <<>>, fs)
      [] file_obj # NoFile /\ access.username = "" ->
            UploadResult(<<"Invalid user access data", 400>>, NoFid, "none",
                         "none", "none", <<>>, fs)
      [] OTHER ->
            IF env.put # "ok"
            THEN UploadResult(<<"Failed to store file", 500>>, NoFid, "fail",
                              "ok", "none",
                              <<upload_message(NoFid, access, file_obj)>>, fs)
            ELSE upload_publish(upload_message(newId, access, file_obj),
                                fs \cup {newId}, newId, env)

\* upload(file_obj, fs, channel, access); newId is the id fs.put returns
upload(file_obj, access, fs, newId, env) ==
    CASE file_obj = NoFile ->
            UploadResult(<<"No file provided", 400>>, NoFid, "none", "none",
                         "none", <<>>, fs)
      [] file_obj # NoFile /\ access.username = "" ->
            UploadResult(<<"Invalid user access data", 400>>, NoFid, "none",
                         "none", "none", <<>>, fs)
      [] OTHER ->
            CASE env.put = "GridFSError" ->
                    UploadResult(<<"Failed to store file", 500>>, NoFid,
                                 "fail", "none", "none", <<>>, fs)
              [] env.put = "PyMongoError" ->
                    UploadResult(<<"Database error during upload", 500>>,
                                 NoFid, "fail", "none", "none", <<>>, fs)
              [] env.put = "Exception" ->
                    UploadResult(<<"Internal server error during file storage", 500>>,
                                 NoFid, "fail", "none", "none", <<>>, fs)
              [] OTHER ->
                    upload_publish(upload_message(newId, access, file_obj),
                                   fs \cup {newId}, newId, env)

\* =================================================================
\* converter: start()
\* =================================================================
\* fs_videos.get: the source blob is read, or the call raises (NoFile, or the
\* store is unreachable)
GetOutcomes == {"ok", "fail"}
\* ffmpeg .run(): done, or ffmpeg.Error; a failing ffmpeg may already have
\* created its output file
FfmpegOutcomes == {"ok", "error", "error_output_left"}
\* one outcome for every call start() makes; a call that is not reached has
\* no outcome of its own and is listed "ok"
StartEnvs ==
    {e \in [get : GetOutcomes, ffmpeg : FfmpegOutcomes,
            put : {"ok", "fail"}, publish : {"ok", "fail"},
            delete : DeleteOutcomes] :
        /\ (e.get # "ok" => e.ffmpeg = "ok")
        /\ (e.ffmpeg # "ok" => e.put = "ok")
        /\ (e.put # "ok" => e.publish = "ok")
        /\ (e.get # "ok" \/ e.ffmpeg # "ok" \/ e.put # "ok"
               \/ e.publish = "ok" => e.delete = "ok")}

\* tempfile.NamedTemporaryFile(delete=False): a fresh name for every run
TempVideo(run) == <<"tmp", run>>
\* tempfile.gettempdir() + "/{video_fid}.mp3"
TempAudio(message) == <<"mp3", message.video_fid>>

\* what one start() run did: how it ended ("return" or "raise"), the value
\* it returned, the result blob id (NoFid if none), the outcome of the
\* conversion / put / publish / delete ("none" when not reached), the
\* messages put on MP3_QUEUE, the scratch files the run created, and the
\* result store and temp directory it leaves
StartResult(exit, ret, fid, conv, put, pub, del, sent, created, mp3s, tmp) ==
    [exit |-> exit, ret |-> ret, fid |-> fid, conv |-> conv, put |-> put,
     pub |-> pub, del |-> del, sent |-> sent, created |-> created,
     fs_mp3s |-> mp3s, tmp |-> tmp]

\* converted_message that copies the source id into mp3_fid
converted_message_wrong_fid(message, fid) ==
    [message EXCEPT !.mp3_fid = message.video_fid]

\* converted_message that leaves mp3_fid as upload() set it
converted_message_null_fid(message, fid) ==
    message

\* message["mp3_fid"] = str(fid): the only field start() rewrites
converted_message(message, fid) ==
    [message EXCEPT !.mp3_fid = fid]

\* start_publish whose handler returns without the compensating delete
start_publish_no_delete(message, fid, mp3s, env) ==
    IF env.publish = "ok"
    THEN <<NoneStr, mp3s, <<converted_message(message, fid)>>, "none">>
    ELSE <<"failed to publish message", mp3s, <<>>, "none">>

\* start_publish that deletes the result blob whether or not the publish
\* raised (the delete moved out of the handler)
start_publish_delete_always(message, fid, mp3s, env) ==
    IF env.publish = "ok"
    THEN <<NoneStr, mp3s \ {fid}, <<converted_message(message, fid)>>,
           "none">>
    ELSE IF env.delete = "ok"
         THEN <<"failed to publish message", mp3s \ {fid}, <<>>, "ok">>
         ELSE <<"failed to process video", mp3s, <<>>, "fail">>

\* start_publish that publishes nothing when the result store already
\* holds a blob, drops its own result blob and reports success
start_publish_dedup(message, fid, mp3s, env) ==
    IF mp3s \ {fid} # {}
    THEN <<NoneStr, mp3s \ {fid}, <<>>, "ok">>
    ELSE IF env.publish = "ok"
    THEN <<NoneStr, mp3s, <<converted_message(message, fid)>>, "none">>
    ELSE <<"failed to publish message", mp3s \ {fid}, <<>>, "ok">>

\* start_publish whose handler deletes the result blob and then reports
\* success
start_publish_swallows_failure(message, fid, mp3s, env) ==
    IF env.publish = "ok"
    THEN <<NoneStr, mp3s, <<converted_message(message, fid)>>, "none">>
    ELSE <<NoneStr, mp3s \ {fid}, <<>>, env.delete>>

\* channel.basic_publish(...) and its handler: on any exception the result
\* blob is deleted and "failed to publish message" is returned; a delete that
\* raises there (the store failed, or the blob is gone already) is caught by
\* the outer "except Exception".
\* Yields <<returned value, result store, messages sent, delete outcome>>.
start_publish(message, fid, mp3s, env) ==
    IF env.publish = "ok"
    THEN <<NoneStr, mp3s, <<converted_message(message, fid)>>, "none">>
    ELSE IF env.delete = "ok"
         THEN <<"failed to publish message", mp3s \ {fid}, <<>>, "ok">>
         ELSE <<"failed to process video",
                IF env.delete = "gone" THEN mp3s \ {fid} ELSE mp3s, <<>>,
                env.delete>>

\* start that ignores a failed ffmpeg run and goes on to store and announce
\* whatever output there is
start_ignores_ffmpeg_error(message, videos, mp3s, newId, run, tmp, env) ==
    LET tf == TempVideo(run)
        tf_path == TempAudio(message)
        tmp1 == tmp \cup {tf}
    IN
    CASE message.video_fid \notin videos \/ env.get = "fail" ->
            StartResult("raise", NoneStr, NoFid, "none", "none", "none",
                        "none", <<>>, {tf}, mp3s, tmp1)
      [] OTHER ->
            IF env.put = "fail"
            THEN StartResult("return", "failed to process video", NoFid,
                             IF env.ffmpeg = "ok" THEN "ok" ELSE "fail",
                             "fail", "none", "none", <<>>,
                             {tf, tf_path}, mp3s,
                             (tmp1 \cup {tf_path}) \ {tf})
            ELSE LET p == start_publish(message, newId, mp3s \cup {newId},
                                        env)
                 IN StartResult("return", p[1], newId,
                                IF env.ffmpeg = "ok" THEN "ok" ELSE "fail",
                                "ok",
                                IF env.publish = "ok" THEN "ok" ELSE "fail",
                                p[4], p[3], {tf, tf_path}, p[2],
                                (tmp1 \ {tf_path}) \ {tf})

\* start(message, fs_videos, fs_mp3s, channel); newId is the id fs_mp3s.put
\* returns, run numbers the invocation, tmp is the temp directory.
\* The messages on the "video" queue are the JSON documents upload()
\* published, so json.loads succeeds.
start(message, videos, mp3s, newId, run, tmp, env) ==
    LET tf == TempVideo(run)
        tf_path == TempAudio(message)
        tmp1 == tmp \cup {tf}
    IN
    CASE message.video_fid \notin videos \/ env.get = "fail" ->
            \* raised before the try: nothing removes tf
            StartResult("raise", NoneStr, NoFid, "none", "none", "none",
                        "none", <<>>, {tf}, mp3s, tmp1)
      [] OTHER ->
        CASE env.ffmpeg = "error" ->
                StartResult("return", "failed to convert video", NoFid,
                            "fail", "none", "none", "none", <<>>, {tf},
                            mp3s, tmp1 \ {tf})
          [] env.ffmpeg = "error_output_left" ->
                StartResult("return", "failed to convert video", NoFid,
                            "fail", "none", "none", "none", <<>>,
                            {tf, tf_path}, mp3s,
                            (tmp1 \cup {tf_path}) \ {tf})
          [] OTHER ->
            IF env.put = "fail"
            THEN \* fs_mp3s.put raised: os.remove(tf_path) is skipped
                 StartResult("return", "failed to process video", NoFid,
                             "ok", "fail", "none", "none", <<>>,
                             {tf, tf_path}, mp3s,
                             (tmp1 \cup {tf_path}) \ {tf})
            ELSE LET p == start_publish(message, newId, mp3s \cup {newId},
                                        env)
                 IN StartResult("return", p[1], newId, "ok", "ok",
                                IF env.publish = "ok" THEN "ok" ELSE "fail",
                                p[4], p[3], {tf, tf_path}, p[2],
                                (tmp1 \ {tf_path}) \ {tf})

\* =================================================================
\* notification: callback()
\* =================================================================
\* the value email.notification(body) returns: None, or an error
NotificationErrors == {NoneStr, "smtp error"}

\* callback that records the duration of the successful attempts only
callback_observe_on_success(err, jobs, duration) ==
    IF err # NoneStr
    THEN [JOBS_TOTAL |-> [jobs EXCEPT !.error = @ + 1],
          JOB_DURATION |-> duration, acks |-> 0, nacks |-> 1]
    ELSE [JOBS_TOTAL |-> [jobs EXCEPT !.success = @ + 1],
          JOB_DURATION |-> duration + 1, acks |-> 1, nacks |-> 0]

\* callback that counts a failed attempt under both labels
callback_error_counts_both(err, jobs, duration) ==
    IF err # NoneStr
    THEN [JOBS_TOTAL |-> [jobs EXCEPT !.error = @ + 1, !.success = @ + 1],
          JOB_DURATION |-> duration + 1, acks |-> 0, nacks |-> 1]
    ELSE [JOBS_TOTAL |-> [jobs EXCEPT !.success = @ + 1],
          JOB_DURATION |-> duration + 1, acks |-> 1, nacks |-> 0]

\* callback that acknowledges and counts a success whatever the notification
\* returned
callback_always_ack(err, jobs, duration) ==
    [JOBS_TOTAL |-> [jobs EXCEPT !.success = @ + 1],
     JOB_DURATION |-> duration + 1, acks |-> 1, nacks |-> 0]

\* callback(ch, method, properties, body), given the error the notification
\* returned: one duration observation, then the error counter and a nack, or
\* the success counter and an ack
\* callback that leaves the message of a failed notification unsettled
callback_unsettled_on_error(err, jobs, duration) ==
    IF err # NoneStr
    THEN [JOBS_TOTAL |-> [jobs EXCEPT !.error = @ + 1],
          JOB_DURATION |-> duration + 1, acks |-> 0, nacks |-> 0]
    ELSE [JOBS_TOTAL |-> [jobs EXCEPT !.success = @ + 1],
          JOB_DURATION |-> duration + 1, acks |-> 1, nacks |-> 0]

callback(err, jobs, duration) ==
    IF err # NoneStr
    THEN [JOBS_TOTAL |-> [jobs EXCEPT !.error = @ + 1],
          JOB_DURATION |-> duration + 1, acks |-> 0, nacks |-> 1]
    ELSE [JOBS_TOTAL |-> [jobs EXCEPT !.success = @ + 1],
          JOB_DURATION |-> duration + 1, acks |-> 1, nacks |-> 0]

\* =================================================================
\* gateway: the validation clients' retry loops
\* =================================================================
\* MAX_RETRIES and CACHE_DURATION of storage/util.py; the clock of the model
\* counts in units of CACHE_DURATION
MAX_RETRIES == 3
CACHE_DURATION == 1

\* what one requests.post / requests.get to the identity service yields: a
\* response (status code and body text) or a raised exception: one of the
\* requests exceptions the loop names, or any other ("Exception")
\* The bodies of the 200 responses: "claimsA " holds the claims of an admin,
\* "claimsU " the claims of a user who is no admin, "<html>" is no JSON.
Responses ==
    {[kind |-> "response", status |-> 200, text |-> "claimsA "],
     [kind |-> "response", status |-> 200, text |-> "claimsU "],
     [kind |-> "response", status |-> 200, text |-> "<html>"],
     [kind |-> "response", status |-> 204, text |-> ""],
     [kind |-> "response", status |-> 401, text |-> "denied"],
     [kind |-> "response", status |-> 403, text |-> "denied"],
     [kind |-> "response", status |-> 404, text |-> "not found"],
     [kind |-> "response", status |-> 404, text |-> ""],
     [kind |-> "response", status |-> 422, text |-> "bad token"],
     [kind |-> "response", status |-> 500, text |-> "down"]}
Faults ==
    {[kind |-> f, status |-> 0, text |-> ""] :
        f \in {"Timeout", "ConnectionError", "RequestException",
                "Exception"}}
Outcomes == Responses \cup Faults

\* str.strip() on the strings of the model: the padded ones lose their
\* padding, every other string is returned as it is
strip(s) ==
    CASE s = "claimsA " -> "claimsA"
      [] s = "claimsB " -> "claimsB"
      [] s = "claimsC " -> "claimsC"
      [] s = "claimsU " -> "claimsU"
      [] s = " tokA" -> "tokA"
      [] s = "Bearer " -> "Bearer"
      [] s = " " -> ""
      [] OTHER -> s

\* what a validation call returns, the number of remote calls it made, and
\* whether it handed its result to cache_token_validation
AuthResult(user_data, err, calls, cache) ==
    [user_data |-> user_data, err |-> err, calls |-> calls, cache |-> cache]

\* last_attempt that never holds: every retryable outcome continues the loop
last_attempt_never(attempt, max_retries) ==
    FALSE

\* last_attempt that holds on every iteration: the first retryable fault
\* ends the call and decides its error
last_attempt_first_fault(attempt, max_retries) ==
    TRUE

\* "if attempt < MAX_RETRIES - 1: continue / else: return": the else branch
\* is taken on the last iteration of the loop
last_attempt(attempt, max_retries) ==
    ~(attempt < max_retries - 1)

\* token_branch that sends a 200 response down the "other client errors"
\* branch
token_branch_200_rejected(o) ==
    CASE o.kind # "response" -> o.kind
      [] o.status = 401 -> "401"
      [] o.status = 403 -> "403"
      [] o.status = 422 -> "422"
      [] o.status >= 500 -> "5xx"
      [] OTHER -> "other"

\* token_branch that sends a 401 response down the success branch
token_branch_401_accepted(o) ==
    CASE o.kind # "response" -> o.kind
      [] o.status = 200 -> "200"
      [] o.status = 401 -> "200"
      [] o.status = 403 -> "403"
      [] o.status = 422 -> "422"
      [] o.status >= 500 -> "5xx"
      [] OTHER -> "other"

\* token_branch that sends a 401 response down the server-error branch
token_branch_401_retried(o) ==
    CASE o.kind # "response" -> o.kind
      [] o.status = 200 -> "200"
      [] o.status = 401 -> "5xx"
      [] o.status = 403 -> "403"
      [] o.status = 422 -> "422"
      [] o.status >= 500 -> "5xx"
      [] OTHER -> "other"

\* token_branch that sends a server error down the "other client errors"
\* branch
token_branch_5xx_terminal(o) ==
    CASE o.kind # "response" -> o.kind
      [] o.status = 200 -> "200"
      [] o.status = 401 -> "401"
      [] o.status = 403 -> "403"
      [] o.status = 422 -> "422"
      [] OTHER -> "other"

\* token_branch that sends a 422 response down the server-error branch, to
\* be tried again
token_branch_422_retried(o) ==
    CASE o.kind # "response" -> o.kind
      [] o.status = 200 -> "200"
      [] o.status = 401 -> "401"
      [] o.status = 403 -> "403"
      [] o.status = 422 -> "5xx"
      [] o.status >= 500 -> "5xx"
      [] OTHER -> "other"

\* the branch of storage/util.py token()'s if / elif / except chain that an
\* outcome of requests.post takes
token_branch(o) ==
    CASE o.kind # "response" -> o.kind
      [] o.status = 200 -> "200"
      [] o.status = 401 -> "401"
      [] o.status = 403 -> "403"
      [] o.status = 422 -> "422"
      [] o.status >= 500 -> "5xx"
      [] OTHER -> "other"

\* token_unexpected that lets the exception leave token(): the caller gets
\* neither claims nor an error value
token_unexpected_propagates(attempt) ==
    AuthResult(NoneStr, None, attempt + 1, FALSE)

\* the outer "except Exception" of storage/util.py token(), reached by an
\* exception of the attempt that the loop's handlers do not name
token_unexpected(attempt) ==
    AuthResult(NoneStr, <<"Internal token validation error", 500>>,
               attempt + 1, FALSE)

\* token_other_error with the fixed error of auth/validate.py
token_other_error_fixed(o) ==
    <<"Token validation failed", 401>>

\* error_msg = response.text or "Token validation failed";
\* return None, (error_msg, response.status_code)
token_other_error(o) ==
    <<IF o.text # "" THEN o.text ELSE "Token validation failed", o.status>>

\* storage/util.py token(): "for attempt in range(MAX_RETRIES)" from
\* iteration attempt on; outcomes[attempt + 1] is what that iteration's
\* requests.post yields
RECURSIVE token_attempts(_, _, _)
token_attempts(outcomes, attempt, max_retries) ==
    IF attempt >= max_retries
    THEN AuthResult(NoneStr, <<"Token validation failed", 500>>, attempt,
                    FALSE)
    ELSE LET o == outcomes[attempt + 1]
             b == token_branch(o)
             last == last_attempt(attempt, max_retries)
         IN
         CASE b = "200" ->
                 AuthResult(strip(o.text), None, attempt + 1, TRUE)
           [] b = "401" ->
                 AuthResult(NoneStr, <<"Invalid or expired token", 401>>,
                            attempt + 1, FALSE)
           [] b = "403" ->
                 AuthResult(NoneStr, <<"Access forbidden", 403>>,
                            attempt + 1, FALSE)
           [] b = "422" ->
                 AuthResult(NoneStr, <<"Malformed token", 422>>,
                            attempt + 1, FALSE)
           [] b = "5xx" ->
                 IF last
                 THEN AuthResult(NoneStr,
                                 <<"Authentication service unavailable", 503>>,
                                 attempt + 1, FALSE)
                 ELSE token_attempts(outcomes, attempt + 1, max_retries)
           [] b = "other" ->
                 AuthResult(NoneStr, token_other_error(o), attempt + 1,
                            FALSE)
           [] b = "Timeout" ->
                 IF last
                 THEN AuthResult(NoneStr,
                                 <<"Authentication service timeout", 504>>,
                                 attempt + 1, FALSE)
                 ELSE token_attempts(outcomes, attempt + 1, max_retries)
           [] b = "ConnectionError" ->
                 IF last
                 THEN AuthResult(NoneStr,
                                 <<"Authentication service unavailable", 503>>,
                                 attempt + 1, FALSE)
                 ELSE token_attempts(outcomes, attempt + 1, max_retries)
           [] b = "RequestException" ->
                 AuthResult(NoneStr,
                            <<"Token validation request failed", 500>>,
                            attempt + 1, FALSE)
           [] b = "Exception" ->
                 token_unexpected(attempt)

\* auth/validate.py token(): the same loop without a cache, without the 422
\* branch, and with a fixed error for the other statuses
RECURSIVE validate_token_attempts(_, _, _)
validate_token_attempts(outcomes, attempt, max_retries) ==
    IF attempt >= max_retries
    THEN AuthResult(NoneStr, <<"Token validation failed", 500>>, attempt,
                    FALSE)
    ELSE LET o == outcomes[attempt + 1]
             last == last_attempt(attempt, max_retries)
         IN
         CASE o.kind = "response" /\ o.status = 200 ->
                 AuthResult(strip(o.text), None, attempt + 1, FALSE)
           [] o.kind = "response" /\ o.status = 401 ->
                 AuthResult(NoneStr, <<"Invalid or expired token", 401>>,
                            attempt + 1, FALSE)
           [] o.kind = "response" /\ o.status = 403 ->
                 AuthResult(NoneStr, <<"Access forbidden", 403>>,
                            attempt + 1, FALSE)
           [] o.kind = "response" /\ o.status >= 500 ->
                 IF last
                 THEN AuthResult(NoneStr,
                                 <<"Authentication service unavailable", 503>>,
                                 attempt + 1, FALSE)
                 ELSE validate_token_attempts(outcomes, attempt + 1,
                                              max_retries)
           [] o.kind = "response"
                /\ o.status \notin {200, 401, 403} /\ o.status < 500 ->
                 AuthResult(NoneStr, <<"Token validation failed", 401>>,
                            attempt + 1, FALSE)
           [] o.kind = "Timeout" ->
                 IF last
                 THEN AuthResult(NoneStr,
                                 <<"Authentication service timeout", 504>>,
                                 attempt + 1, FALSE)
                 ELSE validate_token_attempts(outcomes, attempt + 1,
                                              max_retries)
           [] o.kind = "ConnectionError" ->
                 IF last
                 THEN AuthResult(NoneStr,
                                 <<"Authentication service unavailable", 503>>,
                                 attempt + 1, FALSE)
                 ELSE validate_token_attempts(outcomes, attempt + 1,
                                              max_retries)
           [] o.kind = "RequestException" ->
                 AuthResult(NoneStr,
                            <<"Token validation request failed", 500>>,
                            attempt + 1, FALSE)
           [] o.kind = "Exception" ->
                 AuthResult(NoneStr,
                            <<"Internal token validation error", 500>>,
                            attempt + 1, FALSE)

\* auth/validate.py login(): the same loop for POST /login; the error for
\* the other statuses is "Authentication failed: " + response.text, modelled
\* as the pair of the prefix and the text
RECURSIVE login_attempts(_, _, _)
login_attempts(outcomes, attempt, max_retries) ==
    IF attempt >= max_retries
    THEN AuthResult(NoneStr, <<"Authentication failed", 500>>, attempt,
                    FALSE)
    ELSE LET o == outcomes[attempt + 1]
             last == last_attempt(attempt, max_retries)
         IN
         CASE o.kind = "response" /\ o.status = 200 ->
                 AuthResult(strip(o.text), None, attempt + 1, FALSE)
           [] o.kind = "response" /\ o.status = 401 ->
                 AuthResult(NoneStr, <<"Invalid credentials", 401>>,
                            attempt + 1, FALSE)
           [] o.kind = "response" /\ o.status = 403 ->
                 AuthResult(NoneStr, <<"Access forbidden", 403>>,
                            attempt + 1, FALSE)
           [] o.kind = "response" /\ o.status >= 500 ->
                 IF last
                 THEN AuthResult(NoneStr,
                                 <<"Authentication service unavailable", 503>>,
                                 attempt + 1, FALSE)
                 ELSE login_attempts(outcomes, attempt + 1, max_retries)
           [] o.kind = "response"
                /\ o.status \notin {200, 401, 403} /\ o.status < 500 ->
                 AuthResult(NoneStr,
                            <<<<"Authentication failed: ", o.text>>,
                              o.status>>,
                            attempt + 1, FALSE)
           [] o.kind = "Timeout" ->
                 IF last
                 THEN AuthResult(NoneStr,
                                 <<"Authentication service timeout", 504>>,
                                 attempt + 1, FALSE)
                 ELSE login_attempts(outcomes, attempt + 1, max_retries)
           [] o.kind = "ConnectionError" ->
                 IF last
                 THEN AuthResult(NoneStr,
                                 <<"Authentication service unavailable", 503>>,
                                 attempt + 1, FALSE)
                 ELSE login_attempts(outcomes, attempt + 1, max_retries)
           [] o.kind = "RequestException" ->
                 AuthResult(NoneStr,
                            <<"Authentication request failed", 500>>,
                            attempt + 1, FALSE)
           [] o.kind = "Exception" ->
                 AuthResult(NoneStr,
                            <<"Internal authentication error", 500>>,
                            attempt + 1, FALSE)

\* -----------------------------------------------------------------
\* the checks the clients make before the loop
\* -----------------------------------------------------------------
\* the values of AUTH_SVC_ADDRESS: unset, or the address of the service
Addresses == {"", "auth:5000"}
\* "Authorization" not in request.headers
NoHeader == "absent"
\* request.authorization is None
NoAuth == [username |-> "absent", password |-> "absent"]
\* the requests to token(), by their Authorization header
TokenRequests == {[header |-> h] : h \in {NoHeader, " ", "Bearer ", " tokA"}}
\* request.authorization of the requests to login()
LoginRequests ==
    {NoAuth, [username |-> "", password |-> "pw"],
     [username |-> "alice", password |-> ""],
     [username |-> "alice", password |-> "pw"]}

\* what a call gives back when it stops before the loop: no claims, the
\* error, no remote call, nothing handed to the cache
Rejected(message, status) ==
    AuthResult(NoneStr, <<message, status>>, 0, FALSE)

\* config_error that lets an unset address through to the header checks
config_error_skipped(address) ==
    None

\* "if not AUTH_SVC_ADDRESS": the error of the three clients, None if the
\* address is set
config_error(address) ==
    IF address = ""
    THEN <<"Authentication service not configured", 500>>
    ELSE None

\* header_error that accepts a blank header
header_error_blank_accepted(header) ==
    IF header = NoHeader
    THEN <<"Missing authorization header", 401>>
    ELSE None

\* storage/util.py token(): the checks of the Authorization header; None if
\* the header holds a token
header_error(header) ==
    IF header = NoHeader
    THEN <<"Missing authorization header", 401>>
    ELSE IF header = "" \/ strip(header) = ""
    THEN <<"Invalid authorization header", 401>>
    ELSE None

\* auth/validate.py token(): auth_header[7:].strip() for a header that
\* starts with "bearer ", auth_header.strip() for any other
bearer_token(header) ==
    IF header = "Bearer " THEN "" ELSE strip(header)

\* storage/util.py token() on a request whose token is not in the cache.
\* lookup tells whether get_cached_token_validation was called.
token(address, header, outcomes, max_retries) ==
    LET r == IF config_error(address) # None
             THEN Rejected(config_error(address)[1], config_error(address)[2])
             ELSE IF header_error(header) # None
             THEN Rejected(header_error(header)[1], header_error(header)[2])
             ELSE token_attempts(outcomes, 0, max_retries)
    IN [user_data |-> r.user_data, err |-> r.err, calls |-> r.calls,
        cache |-> r.cache /\ CACHE_DURATION > 0,
        lookup |-> /\ config_error(address) = None
                   /\ header_error(header) = None
                   /\ CACHE_DURATION > 0]

\* auth/validate.py token(): it has no cache
validate_token(address, header, outcomes, max_retries) ==
    LET r == IF address = ""
             THEN Rejected("Authentication service not configured", 500)
             ELSE IF header = NoHeader \/ header = ""
             THEN Rejected("Missing authorization header", 401)
             ELSE IF bearer_token(header) = ""
             THEN Rejected("Invalid token format", 401)
             ELSE validate_token_attempts(outcomes, 0, max_retries)
    IN [user_data |-> r.user_data, err |-> r.err, calls |-> r.calls,
        cache |-> FALSE, lookup |-> FALSE]

\* auth/validate.py login(): it has no cache
login(address, auth, outcomes, max_retries) ==
    LET r == IF address = ""
             THEN Rejected("Authentication service not configured", 500)
             ELSE IF auth = NoAuth
             THEN Rejected("Missing credentials", 401)
             ELSE IF auth.username = "" \/ auth.password = ""
             THEN Rejected("Invalid credentials format", 401)
             ELSE login_attempts(outcomes, 0, max_retries)
    IN [user_data |-> r.user_data, err |-> r.err, calls |-> r.calls,
        cache |-> FALSE, lookup |-> FALSE]

\* =================================================================
\* gateway: storage/util.py token() and its cache
\* =================================================================
\* two request-handling threads of the gateway
Threads == {"t1", "t2"}
Tokens == {"tokA", "tokB", "tokC"}
\* the Authorization header of a request: missing, blank, or a token, with
\* or without padding
Headers == {NoHeader, " ", " tokA", "tokB", "tokC"}

\* hashlib.sha256(token_value.encode()).hexdigest(): one digest per token
sha256(token_value) ==
    CASE token_value = "tokA" -> "sha256(tokA)"
      [] token_value = "tokB" -> "sha256(tokB)"
      [] token_value = "tokC" -> "sha256(tokC)"
      [] OTHER -> "sha256()"

\* lookup_key that looks every token up under one and the same key
lookup_key_fixed(token_value) ==
    sha256("tokA")

\* get_cached_token_validation: token_hash of the lookup
lookup_key(token_value) ==
    sha256(token_value)

\* insert_key that uses the token itself
insert_key_raw(token_value) ==
    token_value

\* cache_token_validation: token_hash of the insert
insert_key(token_value) ==
    sha256(token_value)

\* the body of the identity service's 200 response for a token
Body(token_value) ==
    CASE token_value = "tokA" -> "claimsA "
      [] token_value = "tokB" -> "claimsB "
      [] OTHER -> "claimsC "

\* what the identity service may answer the attempts of one token() call with
TokenOutcomes(token_value) ==
    LET ok == [kind |-> "response", status |-> 200,
               text |-> Body(token_value)]
        nocontent == [kind |-> "response", status |-> 204, text |-> ""]
        denied == [kind |-> "response", status |-> 401, text |-> "denied"]
        timeout == [kind |-> "Timeout", status |-> 0, text |-> ""]
    IN {<<ok, ok, ok>>, <<nocontent, ok, ok>>, <<denied, ok, ok>>,
        <<timeout, timeout, timeout>>}

\* a cache entry: (user_data, datetime.now())
Entry(user_data, time) == [data |-> user_data, time |-> time]

\* entry_valid with the boundary on the wrong side
entry_valid_inclusive(age) ==
    age <= CACHE_DURATION

\* datetime.now() - cached_time < timedelta(seconds=CACHE_DURATION)
entry_valid(age) ==
    age < CACHE_DURATION

\* current_time - cached_time >= timedelta(seconds=CACHE_DURATION)
entry_expired(age) ==
    age >= CACHE_DURATION

\* dict without a key (del TOKEN_CACHE[key]) and with a key set
Without(cache, key) == [k \in DOMAIN cache \ {key} |-> cache[k]]
With(cache, key, entry) ==
    [k \in DOMAIN cache \cup {key} |->
        IF k = key THEN entry ELSE cache[k]]

\* a thread between calls, and the locals of a call
IdleThread ==
    [pc |-> "idle", tok |-> "", user_data |-> NoneStr, err |-> None,
     calls |-> 0, final |-> 0, hit |-> FALSE,
     current_time |-> 0, size |-> 0, visited |-> {}, expired |-> {}]

\* return user_data, err: the locals of the cache functions are gone
Return(thread, user_data, err) ==
    [thread EXCEPT !.pc = "done", !.user_data = user_data, !.err = err,
                   !.tok = "", !.current_time = 0, !.size = 0, !.visited = {},
                   !.expired = {}]

TokenInit ==
    /\ TOKEN_CACHE = << >>
    /\ now = 0
    /\ th = [t \in Threads |-> IdleThread]
    /\ ncalls = 0
    /\ lastCached = [k \in Tokens |-> -1]

\* token(request) up to the first access to the cache: the configuration
\* and header checks
\* and, with caching configured, "if token_hash in TOKEN_CACHE" of
\* get_cached_token_validation
TokenCall(t) ==
    /\ th[t].pc \in {"idle", "done"}
    /\ ncalls < MaxCalls
    /\ ncalls' = ncalls + 1
    /\ \E header \in Headers :
          th' = [th EXCEPT ![t] =
                   IF config_error(AUTH_SVC_ADDRESS) # None
                   THEN Return(IdleThread, NoneStr,
                               config_error(AUTH_SVC_ADDRESS))
                   ELSE IF header_error(header) # None
                   THEN Return(IdleThread, NoneStr, header_error(header))
                   ELSE [IdleThread EXCEPT
                           !.tok = strip(header),
                           !.pc = IF CACHE_DURATION > 0
                                     /\ lookup_key(strip(header))
                                           \in DOMAIN TOKEN_CACHE
                                  THEN "lookup_read" ELSE "remote"]]
    /\ UNCHANGED <<TOKEN_CACHE, now, lastCached>>
    /\ UNCHANGED <<pipelineVars, retryVars>>
    /\ UNCHANGED authVars

\* get_cached_token_validation: read the entry and compare its age; a key
\* that is gone by now raises KeyError, which the function turns into None
LookupRead(t) ==
    /\ th[t].pc = "lookup_read"
    /\ LET key == lookup_key(th[t].tok)
       IN IF key \notin DOMAIN TOKEN_CACHE
          THEN th' = [th EXCEPT ![t].pc = "remote"]
          ELSE LET age == now - TOKEN_CACHE[key].time
               IN IF entry_valid(age)
                  THEN th' = [th EXCEPT ![t] =
                                Return([th[t] EXCEPT !.hit = TRUE],
                                       TOKEN_CACHE[key].data, None)]
                  ELSE th' = [th EXCEPT ![t].pc = "lookup_del"]
    /\ UNCHANGED <<TOKEN_CACHE, now, ncalls, lastCached>>
    /\ UNCHANGED <<pipelineVars, retryVars>>
    /\ UNCHANGED authVars

\* get_cached_token_validation: del TOKEN_CACHE[token_hash]; a key that is
\* gone by now raises KeyError, which the function turns into None
LookupDel(t) ==
    /\ th[t].pc = "lookup_del"
    /\ TOKEN_CACHE' = Without(TOKEN_CACHE, lookup_key(th[t].tok))
    /\ th' = [th EXCEPT ![t].pc = "remote"]
    /\ UNCHANGED <<now, ncalls, lastCached>>
    /\ UNCHANGED <<pipelineVars, retryVars>>
    /\ UNCHANGED authVars

\* the retry loop of token(): the thread touches no shared state in it
Remote(t) ==
    /\ th[t].pc = "remote"
    /\ \E outcomes \in TokenOutcomes(th[t].tok) :
          LET r == token_attempts(outcomes, 0, MAX_RETRIES)
              final == IF r.calls >= 1 THEN outcomes[r.calls]
                       ELSE [kind |-> "none", status |-> 0, text |-> ""]
          IN th' = [th EXCEPT ![t] =
                        IF r.cache /\ CACHE_DURATION > 0
                        THEN [th[t] EXCEPT !.pc = "insert",
                                           !.user_data = r.user_data,
                                           !.calls = r.calls,
                                           !.final = final.status]
                        ELSE Return([th[t] EXCEPT !.calls = r.calls,
                                                  !.final = final.status],
                                    r.user_data, r.err)]
    /\ UNCHANGED <<TOKEN_CACHE, now, ncalls, lastCached>>
    /\ UNCHANGED <<pipelineVars, retryVars>>
    /\ UNCHANGED authVars

\* cache_token_validation: TOKEN_CACHE[token_hash] = (user_data, now())
Insert(t) ==
    /\ th[t].pc = "insert"
    /\ TOKEN_CACHE' = With(TOKEN_CACHE, insert_key(th[t].tok),
                           Entry(th[t].user_data, now))
    /\ lastCached' = [lastCached EXCEPT ![th[t].tok] = now]
    /\ th' = [th EXCEPT ![t].pc = "sweep_start"]
    /\ UNCHANGED <<now, ncalls>>
    /\ UNCHANGED <<pipelineVars, retryVars>>
    /\ UNCHANGED authVars

\* cleanup_expired_cache: current_time = datetime.now(); the iteration over
\* TOKEN_CACHE.items() starts and notes the size of the dict
SweepStart(t) ==
    /\ th[t].pc = "sweep_start"
    /\ th' = [th EXCEPT ![t].pc = "sweep_iter",
                        ![t].current_time = now,
                        ![t].size = Cardinality(DOMAIN TOKEN_CACHE),
                        ![t].visited = {},
                        ![t].expired = {}]
    /\ UNCHANGED <<TOKEN_CACHE, now, ncalls, lastCached>>
    /\ UNCHANGED <<pipelineVars, retryVars>>
    /\ UNCHANGED authVars

\* cleanup_expired_cache: one step of the for loop.  A dict whose size
\* changed since the iteration started raises RuntimeError; the function logs
\* it and returns, and token() returns the validated claims.
SweepIter(t) ==
    /\ th[t].pc = "sweep_iter"
    /\ LET rest == DOMAIN TOKEN_CACHE \ th[t].visited
       IN IF Cardinality(DOMAIN TOKEN_CACHE) # th[t].size
          THEN th' = [th EXCEPT ![t] = Return(th[t], th[t].user_data, None)]
          ELSE IF rest = {}
          THEN th' = [th EXCEPT ![t].pc = "sweep_del"]
          ELSE \E key \in rest :
                  th' = [th EXCEPT
                           ![t].visited = @ \cup {key},
                           ![t].expired =
                              IF entry_expired(th[t].current_time
                                               - TOKEN_CACHE[key].time)
                              THEN @ \cup {key} ELSE @]
    /\ UNCHANGED <<TOKEN_CACHE, now, ncalls, lastCached>>
    /\ UNCHANGED <<pipelineVars, retryVars>>
    /\ UNCHANGED authVars

\* cleanup_expired_cache: "for key in expired_keys: del TOKEN_CACHE[key]",
\* one key at a time; a key that is gone by now raises KeyError, which ends
\* the function
SweepDel(t) ==
    /\ th[t].pc = "sweep_del"
    /\ IF th[t].expired = {}
       THEN /\ th' = [th EXCEPT ![t] = Return(th[t], th[t].user_data, None)]
            /\ UNCHANGED TOKEN_CACHE
       ELSE \E key \in th[t].expired :
               IF key \in DOMAIN TOKEN_CACHE
               THEN /\ TOKEN_CACHE' = Without(TOKEN_CACHE, key)
                    /\ th' = [th EXCEPT ![t].expired = @ \ {key}]
               ELSE /\ th' = [th EXCEPT ![t] =
                                 Return(th[t], th[t].user_data, None)]
                    /\ UNCHANGED TOKEN_CACHE
    /\ UNCHANGED <<now, ncalls, lastCached>>
    /\ UNCHANGED <<pipelineVars, retryVars>>
    /\ UNCHANGED authVars

\* time passes
Tick ==
    /\ now < MaxTime
    /\ now' = now + 1
    /\ UNCHANGED <<TOKEN_CACHE, th, ncalls, lastCached>>
    /\ UNCHANGED <<pipelineVars, retryVars>>
    /\ UNCHANGED authVars

TokenNext ==
    \/ \E t \in Threads :
          \/ TokenCall(t) \/ LookupRead(t) \/ LookupDel(t)
          \/ Remote(t) \/ Insert(t) \/ SweepStart(t) \/ SweepIter(t)
          \/ SweepDel(t)
    \/ Tick

\* =================================================================
\* gateway: the /upload route
\* =================================================================
\* json.loads(access_data): the claims in the body of the identity service's
\* 200 response; json is FALSE for a body that is no JSON document
json_loads(access_data) ==
    CASE access_data = "claimsA" ->
            [json |-> TRUE, admin |-> TRUE, username |-> "alice"]
      [] access_data = "claimsU" ->
            [json |-> TRUE, admin |-> FALSE, username |-> "bob"]
      [] OTHER ->
            [json |-> FALSE, admin |-> FALSE, username |-> ""]

\* request.files of a request to /upload: no file part, one part (with or
\* without a file in it), two parts
FileLists ==
    {<<>>, <<NoFile>>} \cup {<<f>> : f \in Files}
       \cup {<<f, f>> : f \in Files}

\* get_rabbitmq_channel(): a channel, or the connection fails
ChannelOutcomes == {"ok", "fail"}

\* what the route did: the status of its response, its error message ("" on
\* success), whether it called upload(), and what upload() did
RouteResult(status, error, r) ==
    [status |-> status, error |-> error, called |-> TRUE, upload |-> r]
RouteError(status, error, fs) ==
    [status |-> status, error |-> error, called |-> FALSE,
     upload |-> UploadResult(None, NoFid, "none", "none", "none", <<>>, fs)]

\* upload_route that does not look at the admin claim
upload_route_no_admin_check(access_data, err, files, channel, fs, newId, env) ==
    LET access_json == json_loads(access_data)
    IN
    CASE err # None -> RouteError(401, "Invalid token", fs)
      [] err = None /\ files = <<>> ->
            RouteError(400, "No file provided", fs)
      [] OTHER ->
            LET r == upload(files[1], [username |-> access_json.username],
                            fs, newId, env)
            IN IF r.ret # None THEN RouteResult(500, r.ret, r)
               ELSE RouteResult(200, "", r)

\* server.py upload(): token validation, the claims, the admin check, the
\* file parts, then util.upload on a channel of get_rabbitmq_channel()
upload_route(access_data, err, files, channel, fs, newId, env) ==
    LET access_json == json_loads(access_data)
    IN
    IF err # None THEN RouteError(401, "Invalid token", fs)
    ELSE IF ~access_json.json THEN RouteError(400, "Invalid access data", fs)
    ELSE IF ~access_json.admin
    THEN RouteError(403, "Admin privileges required", fs)
    ELSE IF files = <<>> THEN RouteError(400, "No file provided", fs)
    ELSE IF Len(files) # 1
    THEN RouteError(400, "Exactly one file required", fs)
    ELSE IF files[1] = NoFile THEN RouteError(400, "Invalid file", fs)
    ELSE IF channel = "fail"
    THEN RouteError(500, "Upload processing failed", fs)
    ELSE LET r == upload(files[1], [username |-> access_json.username],
                         fs, newId, env)
         IN IF r.ret # None THEN RouteResult(500, r.ret, r)
            ELSE RouteResult(200, "", r)

\* =================================================================
\* identity service: /register
\* =================================================================
\* a key that the JSON payload lacks
Missing == "absent"
\* request.get_json() of a request without a JSON payload
NoData == [email |-> "none", password |-> "none"]
\* the email and password values of the payloads
Emails == {"a@x.io", "b@x.io", "nomail"}
Passwords == {"Strong1!", "Other2@x", "weak"}
RegisterRequests ==
    {NoData} \cup [email : Emails \cup {Missing},
                   password : Passwords \cup {Missing}]
\* the database answers the statements of the request, or one of them raises
DbOutcomes == {"ok", "error"}

\* re.match(r"[^@]+@[^@]+\.[^@]+", email)
valid_email(email) == email \in {"a@x.io", "b@x.io"}

\* validate_password_strength(password): None, or the first rule broken
validate_password_strength(password) ==
    IF password = "weak"
    THEN "Password must contain at least 6 characters"
    ELSE NoneStr

\* hash_password(password): the stored bcrypt hash
hash_password(password) == <<"bcrypt", password>>

\* SELECT id FROM users WHERE email = %s; fetchone()
user_exists(table, email) == \E i \in DOMAIN table : table[i].email = email

\* the response of /register and the table it leaves
RegisterResult(status, message, table) ==
    [status |-> status, message |-> message, users |-> table]

\* register that inserts without looking for the email
register_without_lookup(data, table, db) ==
    IF data = NoData \/ data.email = Missing \/ data.password = Missing
    THEN RegisterResult(400, "Email and password are required", table)
    ELSE IF ~valid_email(data.email)
    THEN RegisterResult(400, "Invalid email format", table)
    ELSE IF validate_password_strength(data.password) # NoneStr
    THEN RegisterResult(400, validate_password_strength(data.password),
                        table)
    ELSE IF db = "error"
    THEN RegisterResult(500, "Database error", table)
    ELSE RegisterResult(201, "User registered successfully",
                        Append(table,
                               [email |-> data.email,
                                password |-> hash_password(data.password)]))

\* auth/server.py register(): the payload checks, the lookup of the email,
\* the insert and the commit
register(data, table, db) ==
    IF data = NoData \/ data.email = Missing \/ data.password = Missing
    THEN RegisterResult(400, "Email and password are required", table)
    ELSE IF ~valid_email(data.email)
    THEN RegisterResult(400, "Invalid email format", table)
    ELSE IF validate_password_strength(data.password) # NoneStr
    THEN RegisterResult(400, validate_password_strength(data.password),
                        table)
    ELSE IF db = "error"
    THEN RegisterResult(500, "Database error", table)
    ELSE IF user_exists(table, data.email)
    THEN RegisterResult(409, "User already exists", table)
    ELSE RegisterResult(201, "User registered successfully",
                        Append(table,
                               [email |-> data.email,
                                password |-> hash_password(data.password)]))

\* =================================================================
\* the broker and the consume loops
\* =================================================================
\* basic_ack removes the delivered message; basic_nack (requeue by default)
\* returns it to the queue, behind the messages already delivered
Acked(q) == Tail(q)
Nacked(q) == Tail(q) \o <<Head(q)>>

\* the converter's consume callback: nack when start() returned an error,
\* ack when it returned None
ConverterSettle(ret, q) ==
    IF ret # NoneStr THEN Nacked(q) ELSE Acked(q)

\* what becomes of the converter's ack: it reaches the broker, or the worker
\* crashes before it does and the broker delivers the message again
AckOutcomes == {"ok", "lost"}

\* the broker's view of a delivery the converter handled: "ack", "nack",
\* "lost" for an ack that never arrived, "none" when start() raised
Settlement(exit, ret, ack) ==
    IF exit = "raise" THEN "none"
    ELSE IF ret # NoneStr THEN "nack"
    ELSE IF ack = "lost" THEN "lost" ELSE "ack"

\* the number of runs of start() that have succeeded for each source blob,
\* after one more run on the descriptor of source blob v
Counted(successes, v, ret) ==
    IF ret # NoneStr THEN successes
    ELSE [w \in DOMAIN successes \cup {v} |->
             IF w = v
             THEN (IF v \in DOMAIN successes THEN successes[v] ELSE 0) + 1
             ELSE successes[w]]

\* =================================================================
\* the state machine
\* =================================================================
\* no validation call is under way
NoResult ==
    [user_data |-> NoneStr, err |-> None, calls |-> 0, cache |-> FALSE,
     lookup |-> FALSE]

RetryIdle ==
    rt = [client |-> "none", max_retries |-> 0,
          request |-> [header |-> NoHeader],
          outcomes |-> <<>>, done |-> FALSE, result |-> NoResult,
          http |-> [status |-> 0, error |-> ""]]

\* the address of the identity service is set
Configured == AUTH_SVC_ADDRESS = "auth:5000"

\* an empty users table, no request handled yet
RegisterInit ==
    /\ users = <<>>
    /\ rg = [n |-> 0, data |-> NoData, db |-> "ok", status |-> 0,
             message |-> "", existed |-> FALSE]

PipelineInit ==
    /\ fs_videos = {}
    /\ fs_mp3s = {}
    /\ videoQ = <<>>
    /\ mp3Q = <<>>
    /\ nextId = 1
    /\ tmpfiles = {}
    /\ converterAlive = TRUE
    /\ JOBS_TOTAL = [success |-> 0, error |-> 0]
    /\ JOB_DURATION = 0
    /\ up = [called |-> FALSE, ret |-> None, fid |-> NoFid, put |-> "none",
             pub |-> "none", del |-> "none", sent |-> <<>>, pre |-> "none"]
    /\ cv = [run |-> 0, exit |-> "return", ret |-> NoneStr, fid |-> NoFid,
             conv |-> "none", put |-> "none", pub |-> "none",
             del |-> "none", sent |-> <<>>, created |-> {},
             settled |-> "none", successes |-> <<>>,
             message |-> upload_message(NoFid, [username |-> ""], NoFile)]
    /\ nb = [delivered |-> FALSE, err |-> NoneStr, acks |-> 0, nacks |-> 0,
             success |-> 0, error |-> 0, observed |-> 0, history |-> <<>>,
             body |-> upload_message(NoFid, [username |-> ""], NoFile)]

Init ==
    /\ PipelineInit
    /\ RetryIdle
    /\ TokenInit
    /\ Configured
    /\ RegisterInit

\* a request reaches the gateway and upload() runs
Upload ==
    /\ nextId <= MaxBlobs
    /\ Len(videoQ) < MaxQueue
    /\ \E file_obj \in Files \cup {NoFile}, access \in Accesses,
          env \in UploadEnvs :
          LET r == upload(file_obj, access, fs_videos, nextId, env)
          IN /\ fs_videos' = r.fs
             /\ videoQ' = videoQ \o r.sent
             /\ nextId' = IF r.put = "ok" THEN nextId + 1 ELSE nextId
             /\ up' = [called |-> TRUE, ret |-> r.ret, fid |-> r.fid,
                       put |-> r.put, pub |-> r.pub, del |-> r.del,
                       sent |-> r.sent,
                       pre |-> upload_precondition(file_obj, access)]
    /\ UNCHANGED <<fs_mp3s, mp3Q, tmpfiles, converterAlive, JOBS_TOTAL,
                   JOB_DURATION, cv, nb, retryVars, tokenVars>>
    /\ UNCHANGED authVars

\* the broker delivers the head of the "video" queue to the converter, which
\* runs start() on it and settles the delivery.  An exception that leaves
\* start() leaves the consume loop too: the process dies and the unacked
\* message stays on the queue.  An ack that is lost on its way leaves the
\* message on the queue as well, to be delivered again.
Convert ==
    /\ converterAlive
    /\ videoQ # <<>>
    /\ cv.run < MaxRuns
    /\ nextId <= MaxBlobs
    /\ Len(mp3Q) < MaxQueue
    /\ \E env \in StartEnvs, ack \in AckOutcomes :
          LET r == start(Head(videoQ), fs_videos, fs_mp3s, nextId,
                         cv.run + 1, tmpfiles, env)
              settled == Settlement(r.exit, r.ret, ack)
          IN /\ settled \in {"none", "nack"} => ack = "ok"
             /\ fs_mp3s' = r.fs_mp3s
             /\ tmpfiles' = r.tmp
             /\ mp3Q' = mp3Q \o r.sent
             /\ nextId' = IF r.put = "ok" THEN nextId + 1 ELSE nextId
             /\ converterAlive' = (r.exit # "raise")
             /\ videoQ' = IF settled \in {"none", "lost"} THEN videoQ
                          ELSE ConverterSettle(r.ret, videoQ)
             /\ cv' = [run |-> cv.run + 1, exit |-> r.exit, ret |-> r.ret,
                       fid |-> r.fid, conv |-> r.conv, put |-> r.put,
                       pub |-> r.pub, del |-> r.del, sent |-> r.sent,
                       created |-> r.created, settled |-> settled,
                       successes |->
                           IF r.exit = "raise" THEN cv.successes
                           ELSE Counted(cv.successes,
                                        Head(videoQ).video_fid, r.ret),
                       message |-> Head(videoQ)]
    /\ UNCHANGED <<fs_videos, JOBS_TOTAL, JOB_DURATION, up, nb, retryVars,
                   tokenVars>>
    /\ UNCHANGED authVars

\* the broker delivers the head of MP3_QUEUE to the notification consumer
Notify ==
    /\ mp3Q # <<>>
    /\ \E err \in NotificationErrors :
          LET r == callback(err, JOBS_TOTAL, JOB_DURATION)
          IN /\ err # NoneStr => JOB_DURATION < MaxJobs
             /\ JOBS_TOTAL' = r.JOBS_TOTAL
             /\ JOB_DURATION' = r.JOB_DURATION
             /\ mp3Q' = IF r.acks = 1 THEN Acked(mp3Q)
                        ELSE IF r.nacks = 1 THEN Nacked(mp3Q) ELSE mp3Q
             /\ nb' = [delivered |-> TRUE, err |-> err, acks |-> r.acks,
                       nacks |-> r.nacks,
                       success |-> r.JOBS_TOTAL.success - JOBS_TOTAL.success,
                       error |-> r.JOBS_TOTAL.error - JOBS_TOTAL.error,
                       observed |-> r.JOB_DURATION - JOB_DURATION,
                       history |-> Append(nb.history,
                          [mp3_fid |-> Head(mp3Q).mp3_fid, err |-> err,
                           acks |-> r.acks,
                           success |-> r.JOBS_TOTAL.success
                                          - JOBS_TOTAL.success,
                           error |-> r.JOBS_TOTAL.error - JOBS_TOTAL.error,
                           observed |-> r.JOB_DURATION - JOB_DURATION]),
                       body |-> Head(mp3Q)]
    /\ UNCHANGED <<fs_videos, fs_mp3s, videoQ, nextId, tmpfiles,
                   converterAlive, up, cv, retryVars, tokenVars>>
    /\ UNCHANGED authVars

Next == Upload \/ Convert \/ Notify

Spec == Init /\ [][Next]_vars

\* a delivery whose notification is sent
NotifyOk == Notify /\ nb'.err = NoneStr

\* the pipeline with a consume loop that keeps delivering what is on the
\* converted queue and a notification that succeeds in the end
SpecDelivery == Init /\ [][Next]_vars /\ WF_vars(NotifyOk)

\* -----------------------------------------------------------------
\* the retry loops on their own: a client is called with some MAX_RETRIES
\* against an identity service that answers the attempts with the drawn
\* outcomes
\* -----------------------------------------------------------------
Clients == {"util.token", "validate.token", "validate.login"}

\* the requests a client can be called with
Requests(c) ==
    IF c = "validate.login" THEN LoginRequests ELSE TokenRequests

\* requests that hold neither a token nor a pair of credentials
EmptyRequests ==
    {q \in TokenRequests : q.header \in {NoHeader, " "}} \cup
    {a \in LoginRequests : a = NoAuth \/ a.username = "" \/ a.password = ""}

\* One call: the address, the client, its MAX_RETRIES, the request, and what
\* the identity service answers each attempt with.  For an unset address
\* and for an empty request the service answers every attempt alike.
RetryInit ==
    /\ PipelineInit
    /\ TokenInit
    /\ RegisterInit
    /\ AUTH_SVC_ADDRESS \in Addresses
    /\ \E c \in Clients, m \in 0..MaxRetries,
          os \in [1..MaxRetries -> Outcomes] :
          \E q \in Requests(c) :
             /\ (AUTH_SVC_ADDRESS = "" \/ q \in EmptyRequests)
                   => \A i \in 1..MaxRetries : os[i] = os[1]
             /\ rt = [client |-> c, max_retries |-> m, request |-> q,
                      outcomes |-> os, done |-> FALSE, result |-> NoResult,
                      http |-> [status |-> 0, error |-> ""]]

\* storage/util.py token() runs, its token not in the cache
RunToken ==
    /\ rt.client = "util.token" /\ ~rt.done
    /\ rt' = [rt EXCEPT !.done = TRUE,
                        !.result = token(AUTH_SVC_ADDRESS, rt.request.header,
                                         rt.outcomes, rt.max_retries)]
    /\ UNCHANGED <<AUTH_SVC_ADDRESS, pipelineVars, tokenVars>>
    /\ UNCHANGED authVars

\* auth/validate.py token() runs
RunValidateToken ==
    /\ rt.client = "validate.token" /\ ~rt.done
    /\ rt' = [rt EXCEPT !.done = TRUE,
                        !.result = validate_token(AUTH_SVC_ADDRESS,
                                                  rt.request.header,
                                                  rt.outcomes,
                                                  rt.max_retries)]
    /\ UNCHANGED <<AUTH_SVC_ADDRESS, pipelineVars, tokenVars>>
    /\ UNCHANGED authVars

\* auth/validate.py login() runs
RunLogin ==
    /\ rt.client = "validate.login" /\ ~rt.done
    /\ rt' = [rt EXCEPT !.done = TRUE,
                        !.result = login(AUTH_SVC_ADDRESS, rt.request,
                                         rt.outcomes, rt.max_retries)]
    /\ UNCHANGED <<AUTH_SVC_ADDRESS, pipelineVars, tokenVars>>
    /\ UNCHANGED authVars

\* the /upload route of the gateway goes on with the result of the token
\* validation: it answers with an error, or calls upload()
UploadAfterValidation ==
    /\ rt.done
    /\ rt.client \in {"util.token", "validate.token"}
    /\ rt.http.status = 0
    /\ nextId <= MaxBlobs
    /\ Len(videoQ) < MaxQueue
    /\ \E files \in FileLists, channel \in ChannelOutcomes,
          env \in UploadEnvs :
          LET h == upload_route(rt.result.user_data, rt.result.err, files,
                                channel, fs_videos, nextId, env)
              r == h.upload
          IN /\ ~h.called => (env.put = "ok" /\ BrokerOutcome(env) = "ok")
             /\ rt' = [rt EXCEPT !.http = [status |-> h.status,
                                           error |-> h.error]]
             /\ fs_videos' = r.fs
             /\ videoQ' = videoQ \o r.sent
             /\ nextId' = IF r.put = "ok" THEN nextId + 1 ELSE nextId
             /\ up' = IF h.called
                      THEN [called |-> TRUE, ret |-> r.ret, fid |-> r.fid,
                            put |-> r.put, pub |-> r.pub, del |-> r.del,
                            sent |-> r.sent,
                            pre |-> upload_precondition(
                                       files[1],
                                       [username |->
                                          json_loads(rt.result.user_data)
                                             .username])]
                      ELSE up
    /\ UNCHANGED <<fs_mp3s, mp3Q, tmpfiles, converterAlive, JOBS_TOTAL,
                   JOB_DURATION, cv, nb, AUTH_SVC_ADDRESS, tokenVars>>
    /\ UNCHANGED authVars

RetryNext == RunToken \/ RunValidateToken \/ RunLogin \/ UploadAfterValidation

SpecRetry == RetryInit /\ [][RetryNext]_vars

\* the gateway threads running storage/util.py token() against the shared
\* cache
TokenSpecInit ==
    /\ PipelineInit
    /\ RetryIdle
    /\ TokenInit
    /\ RegisterInit
    /\ AUTH_SVC_ADDRESS \in Addresses

SpecToken == TokenSpecInit /\ [][TokenNext]_vars

\* -----------------------------------------------------------------
\* the identity service handles one /register request after another
\* -----------------------------------------------------------------
Register ==
    /\ rg.n < MaxRegs
    /\ \E data \in RegisterRequests, db \in DbOutcomes :
          LET r == register(data, users, db)
          IN /\ users' = r.users
             /\ rg' = [n |-> rg.n + 1, data |-> data, db |-> db,
                       status |-> r.status, message |-> r.message,
                       existed |-> user_exists(users, data.email)]
    /\ UNCHANGED <<pipelineVars, retryVars, tokenVars>>

SpecRegister == Init /\ [][Register]_vars

\* =================================================================
\* properties
\* =================================================================
\* the last upload() stored its blob and then failed to declare / publish
UploadPublishFailed == up.put = "ok" /\ up.pub = "fail"

\* C1 (as stated): whenever upload()'s put succeeded and the declare/publish
\* then failed, the blob of that call is absent from the store when upload()
\* returns, and upload() returns an error.
C1_BlobAbsentAfterFailedPublish ==
    UploadPublishFailed => up.fid \notin fs_videos /\ up.ret # None

\* C1 (amended): whenever upload()'s put succeeded and the declare/publish
\* then failed, upload() issues the compensating delete and returns an error,
\* and the blob is absent from the store unless that delete itself failed.
C1_CompensationAttempted ==
    UploadPublishFailed =>
        /\ up.ret # None
        /\ up.del # "none"
        /\ (up.del = "ok" => up.fid \notin fs_videos)

C1_Witness ==
    UploadPublishFailed /\ up.del = "ok" /\ up.fid \notin fs_videos

\* C2: every upload() that returns None published exactly one descriptor to
\* the "video" queue during the call, that descriptor names the blob the call
\* wrote, and the blob is in the store.
C2_SuccessfulUpload ==
    up.called /\ up.ret = None =>
        /\ Len(up.sent) = 1
        /\ up.sent[1].video_fid = up.fid
        /\ up.fid # NoFid
        /\ up.fid \in fs_videos

C2_Witness ==
    up.called /\ up.ret = None /\ Len(up.sent) = 1 /\ up.fid \in fs_videos

\* the last start() stored the result blob and then failed to publish
StartPublishFailed == cv.put = "ok" /\ cv.pub = "fail"

\* C3 (as stated): whenever start() stored the result blob and the publish
\* then failed, the result blob is absent from the result store when start()
\* returns, and start() returns an error.
C3_ResultAbsentAfterFailedPublish ==
    StartPublishFailed =>
        /\ cv.fid \notin fs_mp3s
        /\ cv.exit = "return"
        /\ cv.ret # NoneStr

\* C3 (amended): whenever start() stored the result blob and the publish then
\* failed, start() issues the compensating delete and returns an error, and
\* the result blob is absent from the store unless that delete itself failed.
C3_CompensationAttempted ==
    StartPublishFailed =>
        /\ cv.exit = "return"
        /\ cv.ret # NoneStr
        /\ cv.del # "none"
        /\ (cv.del = "ok" => cv.fid \notin fs_mp3s)

C3_Witness ==
    StartPublishFailed /\ cv.del = "ok" /\ cv.fid \notin fs_mp3s

\* C4: a start() run whose conversion, result store and publish all succeed
\* publishes exactly one descriptor to the converted queue, and the blob its
\* mp3_fid names is in the result store when the run ends.
C4_SuccessfulConversion ==
    cv.conv = "ok" /\ cv.put = "ok" /\ cv.pub = "ok" =>
        /\ Len(cv.sent) = 1
        /\ cv.sent[1].mp3_fid # NoFid
        /\ cv.sent[1].mp3_fid \in fs_mp3s

C4_Witness ==
    /\ cv.conv = "ok" /\ cv.put = "ok" /\ cv.pub = "ok"
    /\ Len(cv.sent) = 1
    /\ cv.exit = "return" /\ cv.ret = NoneStr

\* C5: every descriptor on the converted queue, or delivered to the
\* notification callback, with a non-null mp3_fid names a blob that is in
\* the result store; a descriptor whose blob the compensating delete removed
\* is never there.
C5_ConvertedDescriptorsHaveBlobs ==
    /\ \A i \in DOMAIN mp3Q :
          mp3Q[i].mp3_fid # NoFid => mp3Q[i].mp3_fid \in fs_mp3s
    /\ (nb.delivered /\ nb.body.mp3_fid # NoFid
           => nb.body.mp3_fid \in fs_mp3s)

\* a descriptor is on the converted queue right after a run of start() that
\* removed its own result blob
C5_Witness ==
    /\ mp3Q # <<>>
    /\ mp3Q[1].mp3_fid # NoFid
    /\ cv.del = "ok"
    /\ cv.fid \notin fs_mp3s

\* C6: when start() finishes, by returning or by raising, every scratch file
\* the run created (the temporary video file and the temporary audio file)
\* has been removed.
C6_ScratchRemoved ==
    cv.run > 0 => cv.created \cap tmpfiles = {}

\* C7: when the conversion fails, start() returns an error (the outcome on
\* which the message is nacked), publishes nothing to the converted queue and
\* stores no result blob: the run leaves the queue and the result store as
\* they were.
C7_ConversionFailure ==
    [][cv'.run # cv.run /\ cv'.conv = "fail" =>
          /\ cv'.exit = "return"
          /\ cv'.ret # NoneStr
          /\ cv'.put = "none"
          /\ mp3Q' = mp3Q
          /\ fs_mp3s' = fs_mp3s]_vars

C7_Witness ==
    cv.conv = "fail" /\ cv.ret = "failed to convert video" /\ cv.sent = <<>>

\* C8: the descriptor start() publishes has status "converted", the username
\* and video_fid of the descriptor it consumed, and the mp3_fid the result
\* store returned.
C8_PublishedDescriptor ==
    cv.pub = "ok" =>
        /\ Len(cv.sent) = 1
        /\ cv.sent[1].status = "converted"
        /\ cv.sent[1].username = cv.message.username
        /\ cv.sent[1].video_fid = cv.message.video_fid
        /\ cv.sent[1].mp3_fid = cv.fid

\* C9: for every delivery to the notification callback exactly one of ack and
\* nack is sent: ack with one increment of the success counter iff the
\* notification returned no error, otherwise nack with one increment of the
\* error counter.
C9_AckXorNack ==
    nb.delivered =>
        /\ nb.acks + nb.nacks = 1
        /\ (nb.err = NoneStr =>
               nb.acks = 1 /\ nb.success = 1 /\ nb.error = 0)
        /\ (nb.err # NoneStr =>
               nb.nacks = 1 /\ nb.error = 1 /\ nb.success = 0)

\* a delivery that failed and was nacked, then a delivery that succeeded
C9_Witness ==
    nb.delivered /\ nb.err = NoneStr /\ nb.acks = 1 /\ JOBS_TOTAL.error > 0

\* C10: a failure while handling one message never leaves start() or the
\* notification callback as an exception: the handler yields a nack and the
\* worker goes on consuming.
C10_NoExceptionEscapes ==
    cv.exit = "return" /\ converterAlive

\* ---------------------------------------------------- the retry loops
\* the request of the call holds no token (for the client called), or lacks
\* a username or a password
MissingInput ==
    CASE rt.client = "util.token" ->
            rt.request.header = NoHeader \/ strip(rt.request.header) = ""
      [] rt.client = "validate.token" ->
            \/ rt.request.header = NoHeader
            \/ bearer_token(rt.request.header) = ""
      [] rt.client = "validate.login" ->
            \/ rt.request = NoAuth
            \/ rt.request.username = ""
            \/ rt.request.password = ""
      [] OTHER -> FALSE

\* the call passed the checks made before the loop: the address of the
\* identity service is set and the request holds a token or credentials
ReachedLoop == AUTH_SVC_ADDRESS # "" /\ ~MissingInput

\* the outcome the identity service gives the i-th attempt of the call
Offered(i) == rt.outcomes[i]
\* a timeout, a connection fault or a 5xx response
Retryable(o) ==
    \/ o.kind \in {"Timeout", "ConnectionError"}
    \/ o.kind = "response" /\ o.status >= 500

\* C13: when every remote attempt times out, a validation client (configured
\* to make at least one attempt) makes exactly MAX_RETRIES remote calls,
\* never more, and then fails with the service-timeout error (504).
C13_TimeoutRetryBound ==
    /\ (rt.done => rt.result.calls <= rt.max_retries)
    /\ (rt.done /\ ReachedLoop /\ rt.max_retries >= 1
          /\ (\A i \in 1..rt.max_retries : Offered(i).kind = "Timeout")
        => /\ rt.result.calls = rt.max_retries
           /\ rt.result.user_data = NoneStr
           /\ rt.result.err = <<"Authentication service timeout", 504>>)

C13_Witness ==
    /\ rt.done /\ rt.client = "util.token"
    /\ rt.max_retries = MaxRetries
    /\ \A i \in 1..MaxRetries : Offered(i).kind = "Timeout"
    /\ rt.result.calls = MaxRetries
    /\ rt.result.err[2] = 504

\* C14: when every remote attempt returns a status >= 500 or fails with a
\* connection fault, a validation client (configured to make at least one
\* attempt) makes MAX_RETRIES attempts in total and then fails with the
\* service-unavailable error (503).
C14_UnavailableRetryBound ==
    rt.done /\ ReachedLoop /\ rt.max_retries >= 1
      /\ (\A i \in 1..rt.max_retries :
             \/ Offered(i).kind = "ConnectionError"
             \/ Offered(i).kind = "response" /\ Offered(i).status >= 500)
    => /\ rt.result.calls = rt.max_retries
       /\ rt.result.user_data = NoneStr
       /\ rt.result.err = <<"Authentication service unavailable", 503>>

\* a 5xx response and a connection fault in one call
C14_Witness ==
    /\ rt.done /\ rt.client = "util.token"
    /\ rt.max_retries = MaxRetries
    /\ Offered(1).kind = "response" /\ Offered(1).status >= 500
    /\ \A i \in 2..MaxRetries : Offered(i).kind = "ConnectionError"
    /\ rt.result.calls = MaxRetries
    /\ rt.result.err[2] = 503

\* C15: a 401 or 403 response is terminal: token() and login() return the
\* 401 / 403 error on that attempt, make no further remote attempt in the
\* call, and hand nothing to the cache.
C15_TerminalRejection ==
    rt.done =>
        \A i \in 1..rt.result.calls :
            Offered(i).kind = "response" /\ Offered(i).status \in {401, 403}
            => /\ rt.result.calls = i
               /\ rt.result.user_data = NoneStr
               /\ rt.result.err # None
               /\ rt.result.err[2] = Offered(i).status
               /\ ~rt.result.cache

\* a 403 received on the second attempt, after a retried fault
C15_Witness ==
    /\ rt.done /\ rt.client = "util.token"
    /\ rt.result.calls = 2
    /\ Retryable(Offered(1))
    /\ Offered(2).kind = "response" /\ Offered(2).status = 403
    /\ rt.result.err = <<"Access forbidden", 403>>

\* a response whose status is not 2xx, not 401, not 403 and below 500
OtherStatus(o) ==
    /\ o.kind = "response"
    /\ ~(o.status >= 200 /\ o.status < 300)
    /\ o.status \notin {401, 403}
    /\ o.status < 500

\* C17 (as stated): for every response whose status is not 2xx, not 401, not
\* 403 and not >= 500, token() fails on that attempt, without a retry, with
\* an error that carries the response's message and the response's status.
C17_OtherStatusCarriesMessage ==
    rt.done /\ rt.client \in {"util.token", "validate.token"} =>
        \A i \in 1..rt.result.calls :
            OtherStatus(Offered(i))
            => /\ rt.result.calls = i
               /\ rt.result.user_data = NoneStr
               /\ rt.result.err = <<Offered(i).text, Offered(i).status>>

\* C17 (amended): for every such response token() fails on that attempt,
\* without a retry and without claims.  The error of storage/util.py token()
\* carries the response's status, and as message the response's text, except
\* that a 422 gets the message "Malformed token" and an empty text the
\* message "Token validation failed"; the error of auth/validate.py token()
\* is ("Token validation failed", 401) whatever the response says.
C17_OtherStatusTerminal ==
    rt.done /\ rt.client \in {"util.token", "validate.token"} =>
        \A i \in 1..rt.result.calls :
            OtherStatus(Offered(i))
            => /\ rt.result.calls = i
               /\ rt.result.user_data = NoneStr
               /\ ~rt.result.cache
               /\ (rt.client = "util.token" =>
                      /\ rt.result.err[2] = Offered(i).status
                      /\ rt.result.err[1] =
                           IF Offered(i).status = 422 THEN "Malformed token"
                           ELSE IF Offered(i).text = ""
                                THEN "Token validation failed"
                                ELSE Offered(i).text)
               /\ (rt.client = "validate.token" =>
                      rt.result.err = <<"Token validation failed", 401>>)

\* a 404 with a message, received by storage/util.py token()
C17_Witness ==
    /\ rt.done /\ rt.client = "util.token"
    /\ rt.result.calls = 1
    /\ Offered(1).kind = "response" /\ Offered(1).status = 404
    /\ Offered(1).text # ""
    /\ rt.result.err = <<Offered(1).text, 404>>


\* -----------------------------------------------------------------
\* the token cache under the gateway's threads (SpecToken)
\* -----------------------------------------------------------------
\* thread t takes a step
Steps(t) == th'[t] # th[t]

\* the validation of token k was written to the cache less than
\* CACHE_DURATION ago
RecentlyCached(k) ==
    /\ lastCached[k] >= 0
    /\ now - lastCached[k] < CACHE_DURATION

\* thread t is inside get_cached_token_validation or cache_token_validation:
\* it has made one access to TOKEN_CACHE there and has another to make
InCacheFunction(t) ==
    th[t].pc \in {"lookup_read", "lookup_del", "sweep_start", "sweep_iter",
                  "sweep_del"}

\* C11: a call of token() for a token whose validation was cached less than
\* CACHE_DURATION before the call's lookup finds the entry and returns the
\* cached claims without a call to the identity service.
C11_CacheHitWithinDuration ==
    [][\A t \in Threads :
          /\ (/\ th[t].pc \in {"idle", "done"}
              /\ th'[t].pc \in {"lookup_read", "remote"}
              /\ RecentlyCached(th'[t].tok))
             => th'[t].pc = "lookup_read"
          /\ (/\ th[t].pc = "lookup_read"
              /\ Steps(t)
              /\ RecentlyCached(th[t].tok))
             => /\ th'[t].pc = "done"
                /\ th'[t].hit
                /\ th'[t].calls = 0
                /\ th'[t].err = None
                /\ th'[t].user_data = strip(Body(th[t].tok))]_vars

\* C12: the lookup serves an entry only if its age is below CACHE_DURATION;
\* an entry whose age is CACHE_DURATION or more is not served, and the call
\* goes on to the identity service and makes a remote attempt.
C12_ExpiredEntryNotServed ==
    [][\A t \in Threads :
          LET key == sha256(th[t].tok)
          IN /\ (th[t].pc = "lookup_read" /\ th'[t].hit)
                => /\ key \in DOMAIN TOKEN_CACHE
                   /\ now - TOKEN_CACHE[key].time < CACHE_DURATION
             /\ (/\ th[t].pc = "lookup_read"
                 /\ Steps(t)
                 /\ key \in DOMAIN TOKEN_CACHE
                 /\ now - TOKEN_CACHE[key].time >= CACHE_DURATION)
                => (th'[t].pc = "lookup_del" /\ ~th'[t].hit)
             /\ (th[t].pc = "lookup_del" /\ Steps(t))
                => th'[t].pc = "remote"
             /\ (th[t].pc = "remote" /\ Steps(t))
                => (th'[t].calls >= 1 /\ ~th'[t].hit)]_vars

\* a thread has read an entry whose age is exactly CACHE_DURATION and has
\* turned it down
C12_Witness ==
    \E t \in Threads :
        /\ th[t].pc = "lookup_del"
        /\ sha256(th[t].tok) \in DOMAIN TOKEN_CACHE
        /\ now - TOKEN_CACHE[sha256(th[t].tok)].time = CACHE_DURATION

\* what C16 asks of a call whose remote response had a status in statuses
SuccessfulValidation(statuses) ==
    \A t \in Threads :
       /\ (th[t].pc = "remote" /\ Steps(t) /\ th'[t].final \in statuses)
          => /\ th'[t].pc = "insert"
             /\ th'[t].user_data = strip(Body(th[t].tok))
             /\ th'[t].err = None
       /\ (th[t].pc = "insert" /\ Steps(t))
          => /\ sha256(th[t].tok) \in DOMAIN TOKEN_CACHE'
             /\ TOKEN_CACHE'[sha256(th[t].tok)] = Entry(th[t].user_data, now)
       /\ (/\ th[t].pc \in {"sweep_start", "sweep_iter", "sweep_del"}
           /\ th'[t].pc = "done")
          => /\ th'[t].user_data = th[t].user_data
             /\ th'[t].err = None

\* C16 as stated: every remote response with a 2xx status makes token()
\* cache the claims under the token's hash and return them with no error.
C16_Every2xxIsSuccess ==
    [][SuccessfulValidation(200..299)]_vars

\* C16 as the code has it: a remote response with status 200 makes token()
\* cache the claims under the token's hash and return them with no error.
C16_Status200IsSuccess ==
    [][SuccessfulValidation({200})]_vars

\* a call that was answered 200 has returned the claims of tokA with no
\* error, and they are in the cache under the token's hash
C16_Witness ==
    \E t \in Threads :
        /\ th[t].pc = "done"
        /\ th[t].final = 200
        /\ th[t].err = None
        /\ th[t].user_data = "claimsA"
        /\ sha256("tokA") \in DOMAIN TOKEN_CACHE
        /\ TOKEN_CACHE[sha256("tokA")].data = "claimsA"

\* C18: an entry appears in TOKEN_CACHE, or changes, only by the insert of a
\* call that the identity service answered with a 200, under the hash of
\* that call's token and with the claims of that response.
C18_EntriesFromSuccessfulValidation ==
    [][\A k \in DOMAIN TOKEN_CACHE' :
          (k \notin DOMAIN TOKEN_CACHE \/ TOKEN_CACHE'[k] # TOKEN_CACHE[k])
          => \E t \in Threads :
                /\ th[t].pc = "insert"
                /\ Steps(t)
                /\ th[t].final = 200
                /\ k = sha256(th[t].tok)
                /\ TOKEN_CACHE'[k].data = strip(Body(th[t].tok))]_vars

\* the cache holds the claims of tokB while a call that was answered 401 has
\* returned
C18_Witness ==
    /\ sha256("tokB") \in DOMAIN TOKEN_CACHE
    /\ TOKEN_CACHE[sha256("tokB")].data = "claimsB"
    /\ \E t \in Threads : th[t].pc = "done" /\ th[t].final = 401

\* C19: when cache_token_validation returns, the cache holds no entry that
\* was expired at the time its sweep read the clock.
C19_NoExpiredEntryAfterInsert ==
    [][\A t \in Threads :
          (/\ th[t].pc \in {"sweep_iter", "sweep_del"}
           /\ th'[t].pc = "done")
          => \A k \in DOMAIN TOKEN_CACHE' :
                th[t].current_time - TOKEN_CACHE'[k].time
                   < CACHE_DURATION]_vars

\* C20: no two threads are inside the cache functions at once.
C20_MutualExclusion ==
    \A t1, t2 \in Threads :
        (t1 # t2) => ~(InCacheFunction(t1) /\ InCacheFunction(t2))

\* C23: every key of TOKEN_CACHE is the SHA-256 hash of a token whose
\* validation was cached, never the token itself, and the lookup and the
\* insert compute the same key for a token.
C23_KeysAreHashes ==
    /\ \A k \in DOMAIN TOKEN_CACHE :
          /\ k \notin Tokens
          /\ \E tok \in Tokens :
                k = sha256(tok) /\ lastCached[tok] >= 0
    /\ \A tok \in Tokens : lookup_key(tok) = insert_key(tok)

\* the cache holds a validation under the hash of the token that a padded
\* header carried
C23_Witness ==
    /\ sha256("tokA") \in DOMAIN TOKEN_CACHE
    /\ lastCached["tokA"] >= 0
    /\ \E t \in Threads : th[t].pc = "done" /\ th[t].hit

\* -----------------------------------------------------------------
\* the clients' checks before the loop (SpecRetry)
\* -----------------------------------------------------------------
\* C21: with the address of the identity service unset, a call of token() or
\* login() returns the configuration error and no result, makes no remote
\* call, and token() neither looks its token up in the cache nor hands
\* anything to it.
C21_UnconfiguredRejected ==
    rt.done /\ AUTH_SVC_ADDRESS = "" =>
        /\ rt.result.user_data = NoneStr
        /\ rt.result.err = <<"Authentication service not configured", 500>>
        /\ rt.result.calls = 0
        /\ ~rt.result.lookup
        /\ ~rt.result.cache

\* token() was called with a token in the header, no address set, and an
\* identity service that would have answered 200
C21_Witness ==
    /\ rt.done
    /\ AUTH_SVC_ADDRESS = ""
    /\ rt.client = "util.token"
    /\ rt.max_retries >= 1
    /\ rt.request.header = " tokA"
    /\ rt.outcomes[1].status = 200
    /\ rt.result.calls = 0

\* C22: with the address set, a call whose request has no Authorization
\* header, an empty token, or no username or password returns a 401 error
\* and no result and makes no remote call.
C22_MissingInputRejected ==
    rt.done /\ AUTH_SVC_ADDRESS # "" /\ MissingInput =>
        /\ rt.result.user_data = NoneStr
        /\ rt.result.err # None
        /\ rt.result.err[2] = 401
        /\ rt.result.calls = 0
        /\ ~rt.result.cache

\* token() was called with a blank header against an identity service that
\* would have answered 200
C22_Witness ==
    /\ rt.done
    /\ AUTH_SVC_ADDRESS # ""
    /\ rt.client = "util.token"
    /\ rt.max_retries >= 1
    /\ rt.request.header = " "
    /\ rt.outcomes[1].status = 200
    /\ rt.result.err = <<"Invalid authorization header", 401>>

\* C24: token() and upload() always return: token() gives claims and no
\* error, or no claims and an error; upload() gives no error exactly when
\* the put and the publish succeeded, and an error value with a status for
\* every failure.
C24_ErrorsAreReturned ==
    /\ (rt.done /\ rt.client \in {"util.token", "validate.token"} =>
           /\ (rt.result.err # None <=> rt.result.user_data = NoneStr))
    /\ (up.called =>
           /\ (up.ret = None <=> (up.put = "ok" /\ up.pub = "ok"))
           /\ (up.ret # None => up.ret[2] \in {400, 500}))

\* a token() call that met a timeout and then a 200, followed by an upload()
\* whose publish failed
C24_Witness ==
    /\ rt.done
    /\ rt.client = "util.token"
    /\ rt.outcomes[1].kind = "Timeout"
    /\ rt.result.calls = 2
    /\ rt.result.err = None
    /\ up.called
    /\ up.pub = "fail"
    /\ up.ret # None

\* -----------------------------------------------------------------
\* upload(): failures and compensation (Spec)
\* -----------------------------------------------------------------
\* the step is a call of upload(): the converter and the notification
\* consumer take none
UploadStep == cv' = cv /\ JOB_DURATION' = JOB_DURATION

\* some descriptor on the "video" queue names the blob
Referenced(q, fid) == \E i \in DOMAIN q : q[i].video_fid = fid

\* C25: an upload() whose put fails returns a storage error, publishes no
\* descriptor, issues no delete, and leaves the store and the queue as they
\* were.
C25_PutFailureIsTerminal ==
    [][UploadStep /\ up'.put = "fail" =>
          /\ up'.ret \in {<<"Failed to store file", 500>>,
                          <<"Database error during upload", 500>>,
                          <<"Internal server error during file storage", 500>>}
          /\ up'.fid = NoFid
          /\ up'.pub = "none"
          /\ up'.sent = <<>>
          /\ up'.del = "none"
          /\ fs_videos' = fs_videos
          /\ videoQ' = videoQ]_vars

\* a put failed while the store held a blob and the queue a descriptor
C25_Witness ==
    /\ up.put = "fail"
    /\ up.ret = <<"Failed to store file", 500>>
    /\ fs_videos # {}
    /\ videoQ # <<>>

\* C26: when the publish failed and the compensating delete failed too,
\* upload() returns the error of the publish failure.
C26_PublishErrorSurvivesFailedDelete ==
    UploadPublishFailed /\ up.del \in {"fail", "gone"} =>
        up.ret \in {<<"Failed to queue processing job", 500>>,
                    <<"Internal server error", 500>>}

\* the publish failed, the delete failed, and the blob is still in the store
C26_Witness ==
    /\ UploadPublishFailed
    /\ up.del = "fail"
    /\ up.fid \in fs_videos
    /\ up.ret = <<"Failed to queue processing job", 500>>

\* C27: when upload() returns, the blob it wrote is in the store without a
\* descriptor on the "video" queue naming it only if the compensating delete
\* was attempted and failed; after a successful upload() the blob is in the
\* store and a descriptor on the queue names it.
C27_NoOrphanUnlessDeleteFailed ==
    [][UploadStep /\ up'.called =>
          /\ (/\ up'.fid # NoFid
              /\ up'.fid \in fs_videos'
              /\ ~Referenced(videoQ', up'.fid))
             => up'.del = "fail"
          /\ (up'.ret = None /\ up' # up)
             => /\ up'.fid \in fs_videos'
                /\ Referenced(videoQ', up'.fid)]_vars

\* an orphan blob after a failed delete, next to a blob that a descriptor on
\* the queue names
C27_Witness ==
    /\ UploadPublishFailed
    /\ up.del = "fail"
    /\ up.fid \in fs_videos
    /\ ~Referenced(videoQ, up.fid)
    /\ \E i \in DOMAIN videoQ : videoQ[i].video_fid \in fs_videos

\* C28: a compensating delete that finds its blob gone is contained: upload()
\* and start() still return their error.
C28_DeleteOfMissingBlobContained ==
    /\ (up.del = "gone" =>
           /\ up.ret # None
           /\ up.ret[2] = 500
           /\ up.fid \notin fs_videos)
    /\ (cv.del = "gone" =>
           /\ cv.exit = "return"
           /\ cv.ret # NoneStr
           /\ cv.fid \notin fs_mp3s)

\* both upload() and start() have met a blob that was gone at the delete
C28_Witness ==
    /\ up.del = "gone"
    /\ cv.del = "gone"
    /\ cv.exit = "return"

\* -----------------------------------------------------------------
\* the notification callback's metrics (Spec)
\* -----------------------------------------------------------------
\* the deliveries of the descriptor with result blob m, in order
RECURSIVE DeliveriesOf(_, _)
DeliveriesOf(history, m) ==
    IF history = <<>> THEN <<>>
    ELSE IF Head(history).mp3_fid = m
         THEN <<Head(history)>> \o DeliveriesOf(Tail(history), m)
         ELSE DeliveriesOf(Tail(history), m)

\* C29: every delivery to the callback records one duration observation, and
\* the number of observations is the sum of the success and error counters.
C29_OneObservationPerAttempt ==
    /\ JOB_DURATION = JOBS_TOTAL.success + JOBS_TOTAL.error
    /\ JOB_DURATION = Len(nb.history)
    /\ \A i \in DOMAIN nb.history : nb.history[i].observed = 1

\* a failed attempt and a successful one have been recorded
C29_Witness ==
    /\ JOBS_TOTAL.success = 1
    /\ JOBS_TOTAL.error = 1
    /\ JOB_DURATION = 2

\* C30: for a message whose first delivery failed and whose second delivery
\* succeeded, the second delivery was acknowledged, there is no third, and
\* over its deliveries the success counter rose by one, the error counter by
\* one, and two durations were observed.
C30_FailThenSucceed ==
    \A i \in DOMAIN nb.history :
        LET d == DeliveriesOf(nb.history, nb.history[i].mp3_fid)
        IN (Len(d) >= 2 /\ d[1].err # NoneStr /\ d[2].err = NoneStr) =>
              /\ Len(d) = 2
              /\ d[2].acks = 1
              /\ d[1].success + d[2].success = 1
              /\ d[1].error + d[2].error = 1
              /\ d[1].observed + d[2].observed = 2

\* a message failed, was redelivered and was acknowledged
C30_Witness ==
    /\ Len(nb.history) = 2
    /\ nb.history[1].mp3_fid = nb.history[2].mp3_fid
    /\ nb.history[1].err # NoneStr
    /\ nb.history[2].err = NoneStr
    /\ nb.history[2].acks = 1
    /\ mp3Q = <<>>

\* -----------------------------------------------------------------
\* the number of remote calls and the error after the last one (SpecRetry)
\* -----------------------------------------------------------------
\* the positions, within the attempts the call may make, of the outcomes
\* that are not retried
Terminal == {i \in 1..rt.max_retries : ~Retryable(Offered(i))}

\* the position of the first outcome that is not retried, or MAX_RETRIES
\* when every attempt is retried
ExpectedCalls ==
    IF Terminal = {} THEN rt.max_retries
    ELSE CHOOSE i \in Terminal : \A j \in Terminal : i <= j

\* C36: for every MAX_RETRIES >= 0 and every sequence of remote outcomes, a
\* token() call that reaches the loop makes as many remote calls as the
\* position of the first outcome that is not retried, or MAX_RETRIES if that
\* is smaller; with MAX_RETRIES = 0 it makes none and returns an error.
C36_CallCount ==
    rt.done /\ ReachedLoop /\ rt.client \in {"util.token", "validate.token"}
    => /\ rt.result.calls = ExpectedCalls
       /\ (rt.max_retries = 0 =>
              /\ rt.result.calls = 0
              /\ rt.result.user_data = NoneStr
              /\ rt.result.err = <<"Token validation failed", 500>>)

\* a timeout, then a 422: two calls out of three
C36_Witness ==
    /\ rt.done /\ rt.client = "util.token" /\ ReachedLoop
    /\ rt.max_retries = 3
    /\ Offered(1).kind = "Timeout"
    /\ Offered(2).kind = "response" /\ Offered(2).status = 422
    /\ rt.result.calls = 2

\* C37: when every attempt of a call met a retryable fault, the call made
\* MAX_RETRIES attempts and its error is that of the last attempt's fault:
\* 504 for a timeout, 503 for a status >= 500 or a connection error,
\* whatever the faults of the earlier attempts were.
C37_LastFaultDecides ==
    rt.done /\ ReachedLoop /\ rt.max_retries >= 1
      /\ (\A i \in 1..rt.max_retries : Retryable(Offered(i)))
    => /\ rt.result.calls = rt.max_retries
       /\ rt.result.user_data = NoneStr
       /\ rt.result.err =
             IF Offered(rt.max_retries).kind = "Timeout"
             THEN <<"Authentication service timeout", 504>>
             ELSE <<"Authentication service unavailable", 503>>

\* a timeout, a 500 and a connection error, and a timeout after two other
\* faults
C37_Witness ==
    /\ rt.done /\ ReachedLoop
    /\ rt.max_retries = 3
    /\ Offered(1).kind = "Timeout"
    /\ Offered(2).kind = "response" /\ Offered(2).status >= 500
    /\ Offered(3).kind = "ConnectionError"
    /\ rt.result.err = <<"Authentication service unavailable", 503>>

\* -----------------------------------------------------------------
\* upload(): the argument checks (Spec)
\* -----------------------------------------------------------------
\* C35: an upload() called without a file, or with access data that have no
\* username, returns a 400 error, makes no put, no publish and no delete,
\* and leaves the store and the queue as they were.
C35_RejectedUploadChangesNothing ==
    [][UploadStep /\ up'.pre \in {"no file", "no username"} =>
          /\ up'.ret # None
          /\ up'.ret[2] = 400
          /\ up'.ret[1] = IF up'.pre = "no file" THEN "No file provided"
                          ELSE "Invalid user access data"
          /\ up'.put = "none" /\ up'.pub = "none" /\ up'.del = "none"
          /\ up'.fid = NoFid
          /\ up'.sent = <<>>
          /\ fs_videos' = fs_videos
          /\ videoQ' = videoQ
          /\ nextId' = nextId]_vars

\* a call with a file and without a username was rejected while the store
\* held a blob and the queue a descriptor
C35_Witness ==
    /\ up.called
    /\ up.pre = "no username"
    /\ up.ret = <<"Invalid user access data", 400>>
    /\ fs_videos # {}
    /\ videoQ # <<>>

\* -----------------------------------------------------------------
\* the composed pipeline and the converter's deliveries (Spec)
\* -----------------------------------------------------------------
\* the positions on the converted queue of the descriptors of source blob v
ConvertedFor(v) == {i \in DOMAIN mp3Q : mp3Q[i].video_fid = v}

\* C31: when an upload stored its blob and published its descriptor, and the
\* converter has run once, on that descriptor, with every step succeeding
\* and the ack delivered (no redelivery), then, before the notification
\* consumer takes anything, the converted queue holds exactly one message;
\* it is the descriptor of that source blob and its mp3_fid names a blob of
\* the result store.
C31_OneConvertedMessage ==
    /\ cv.run = 1 /\ cv.exit = "return" /\ cv.ret = NoneStr
    /\ cv.settled = "ack"
    /\ JOB_DURATION = 0
    => /\ Len(mp3Q) = 1
       /\ mp3Q[1].video_fid = cv.message.video_fid
       /\ mp3Q[1].video_fid \in fs_videos
       /\ mp3Q[1].mp3_fid # NoFid
       /\ mp3Q[1].mp3_fid \in fs_mp3s
       /\ \A i \in DOMAIN videoQ : videoQ[i] # cv.message

\* one upload, one conversion, nothing left to convert
C31_Witness ==
    /\ up.called /\ up.ret = None
    /\ cv.run = 1 /\ cv.ret = NoneStr /\ cv.settled = "ack"
    /\ cv.message.video_fid = up.fid
    /\ videoQ = <<>>
    /\ Len(mp3Q) = 1
    /\ JOB_DURATION = 0

\* C32: the converter does not de-duplicate: before the notification consumer
\* takes anything, a source blob whose descriptor start() has converted n
\* times has n descriptors on the converted queue, with n different result
\* blobs, all in the result store.
C32_NoDeduplication ==
    JOB_DURATION = 0 =>
        \A v \in DOMAIN cv.successes :
            /\ Cardinality(ConvertedFor(v)) = cv.successes[v]
            /\ Cardinality({mp3Q[i].mp3_fid : i \in ConvertedFor(v)})
                  = cv.successes[v]
            /\ \A i \in ConvertedFor(v) :
                  mp3Q[i].mp3_fid # NoFid /\ mp3Q[i].mp3_fid \in fs_mp3s

\* a descriptor was delivered again after a run whose ack was lost, and
\* converted a second time
C32_Witness ==
    /\ JOB_DURATION = 0
    /\ cv.run = 2 /\ cv.ret = NoneStr
    /\ cv.message.video_fid \in DOMAIN cv.successes
    /\ cv.successes[cv.message.video_fid] = 2
    /\ Len(mp3Q) = 2
    /\ mp3Q[1].mp3_fid # mp3Q[2].mp3_fid

\* C34: a run of start() returns no error only if it published the converted
\* descriptor; a run that ends without a publish returns an error or raises,
\* and a failed conversion, result store or publish returns an error; the
\* broker sees an ack only for a run that put its descriptor on the
\* converted queue.
C34_AckOnlyAfterPublish ==
    [][cv'.run # cv.run =>
          /\ (cv'.exit = "return" /\ cv'.ret = NoneStr
                => cv'.pub = "ok" /\ mp3Q' = mp3Q \o cv'.sent
                   /\ Len(cv'.sent) = 1)
          /\ (cv'.pub # "ok"
                => /\ cv'.exit = "raise" \/ cv'.ret # NoneStr
                   /\ cv'.settled \in {"nack", "none"}
                   /\ mp3Q' = mp3Q)
          /\ (cv'.conv = "fail" \/ cv'.put = "fail" \/ cv'.pub = "fail"
                => cv'.exit = "return" /\ cv'.ret # NoneStr
                   /\ cv'.settled = "nack")
          /\ (cv'.settled = "ack"
                => Len(mp3Q') = Len(mp3Q) + 1 /\ videoQ' = Tail(videoQ))]_vars

\* a run whose publish failed was nacked and its message is still queued
C34_Witness ==
    /\ cv.run > 0
    /\ cv.pub = "fail"
    /\ cv.ret # NoneStr
    /\ cv.settled = "nack"
    /\ \E i \in DOMAIN videoQ : videoQ[i] = cv.message

\* -----------------------------------------------------------------
\* what a cache hit returns (SpecToken)
\* -----------------------------------------------------------------
\* C38: under every interleaving of the threads' lookups, inserts, lazy
\* deletes and sweeps, a call that is served from the cache returns, without
\* a remote call, the claims stored under the hash of its own token, which
\* are the claims the identity service gave for that token, from an entry
\* whose age at the lookup is below CACHE_DURATION; a call is served from the
\* cache by its lookup only.
C38_HitReturnsOwnClaims ==
    [][\A t \in Threads :
          LET key == sha256(th[t].tok)
          IN /\ (th'[t].hit /\ ~th[t].hit) => th[t].pc = "lookup_read"
             /\ (th[t].pc = "lookup_read" /\ th'[t].hit)
                => /\ key \in DOMAIN TOKEN_CACHE
                   /\ th'[t].pc = "done"
                   /\ th'[t].err = None
                   /\ th'[t].calls = 0
                   /\ th'[t].user_data = TOKEN_CACHE[key].data
                   /\ th'[t].user_data = strip(Body(th[t].tok))
                   /\ \A other \in Tokens \ {th[t].tok} :
                         th'[t].user_data # strip(Body(other))
                   /\ now - TOKEN_CACHE[key].time < CACHE_DURATION
                   /\ TOKEN_CACHE[key].time = lastCached[th[t].tok]]_vars

\* a call for tokA was served from a cache that holds an entry of tokB too,
\* while the other thread is in the middle of a call
C38_Witness ==
    \E t \in Threads :
        /\ th[t].pc = "done" /\ th[t].hit
        /\ th[t].user_data = "claimsA"
        /\ sha256("tokB") \in DOMAIN TOKEN_CACHE
        /\ \E u \in Threads \ {t} : th[u].pc \notin {"idle", "done"}

\* -----------------------------------------------------------------
\* the /upload route (SpecRetry)
\* -----------------------------------------------------------------
\* the token validation of the call returned claims, and they are the claims
\* of an admin
AdminValidated ==
    /\ rt.result.err = None
    /\ json_loads(rt.result.user_data).json
    /\ json_loads(rt.result.user_data).admin

\* C40: the /upload route calls upload(), and so stores a blob or publishes
\* a descriptor, only when the token validation returned no error and claims
\* with admin = true; for a request without a token, with a rejected token
\* or with claims of no admin it answers with an error status and leaves the
\* blob store and the queue as they were.
C40_UploadNeedsAdminToken ==
    [][rt'.http # rt.http =>
          /\ (up' # up \/ fs_videos' # fs_videos \/ videoQ' # videoQ
                 \/ nextId' # nextId)
             => AdminValidated
          /\ ~AdminValidated
             => /\ rt'.http.status \in {400, 401, 403}
                /\ up' = up
                /\ fs_videos' = fs_videos
                /\ videoQ' = videoQ
                /\ nextId' = nextId
          /\ (MissingInput \/ rt.result.err # None)
             => rt'.http.status = 401
          /\ (rt.result.err = None /\ json_loads(rt.result.user_data).json
                 /\ ~json_loads(rt.result.user_data).admin)
             => rt'.http.status = 403]_vars

\* a request whose token was accepted and whose claims are those of a user
\* who is no admin was answered with 403, and upload() was not called
C40_Witness ==
    /\ rt.done
    /\ rt.result.err = None
    /\ rt.result.user_data = "claimsU"
    /\ rt.http.status = 403
    /\ ~up.called
    /\ fs_videos = {}

\* -----------------------------------------------------------------
\* /register (SpecRegister)
\* -----------------------------------------------------------------
\* the step is a /register request
RegisterStep == rg'.n # rg.n

\* the users table has at most one row for every email
OneUserPerEmail ==
    \A i, j \in DOMAIN users : users[i].email = users[j].email => i = j

\* C33 (as stated): once an email is registered, every later /register with
\* that email returns 409 "User already exists" and adds no row.
C33_LaterRegisterIs409 ==
    [][RegisterStep /\ rg'.existed =>
          /\ rg'.status = 409
          /\ rg'.message = "User already exists"
          /\ users' = users]_vars

\* C33 (amended): once an email is registered, no later /register with that
\* email adds a row; the request is answered 409 "User already exists" when
\* its payload passes the checks and the database answers, 400 when the
\* payload lacks the password or the password is too weak, 500 when the
\* database fails.  The table never holds two rows for one email.
C33_DuplicateNeverAdded ==
    /\ [][RegisterStep /\ rg'.existed =>
             /\ users' = users
             /\ rg'.status =
                   IF rg'.data.password = Missing
                      \/ validate_password_strength(rg'.data.password)
                            # NoneStr
                   THEN 400
                   ELSE IF rg'.db = "error" THEN 500 ELSE 409
             /\ (rg'.status = 409 => rg'.message = "User already exists")]_vars
    /\ []OneUserPerEmail

\* an email was registered, and a later request with the same email and
\* another password was answered 409
C33_Witness ==
    /\ rg.existed
    /\ rg.status = 409
    /\ Len(users) = 2
    /\ \E i \in DOMAIN users :
          /\ users[i].email = rg.data.email
          /\ users[i].password # hash_password(rg.data.password)

\* -----------------------------------------------------------------
\* the notification consume loop under redelivery (SpecDelivery)
\* -----------------------------------------------------------------
\* the step is a delivery from the converted queue
NotifyStep == nb'.history # nb.history

\* the descriptor of result blob f is on the converted queue
OnConvertedQueue(f) == \E i \in DOMAIN mp3Q : mp3Q[i].mp3_fid = f

\* a delivery of the descriptor of result blob f was acknowledged
AckedDelivery(f) ==
    \E i \in DOMAIN nb.history :
        nb.history[i].mp3_fid = f /\ nb.history[i].acks = 1

\* C39: when the broker requeues every rejected message and the notification
\* succeeds in the end, every descriptor delivered from the converted queue
\* is acknowledged in the end; every delivery makes one notification attempt
\* (one duration observation, one counter increment) and settles the
\* message once, by an ack or by a nack that sends it back to the queue.
C39_EveryDeliveryAckedInTheEnd ==
    /\ \A f \in 1..(MaxBlobs + 1) : OnConvertedQueue(f) ~> AckedDelivery(f)
    /\ [][NotifyStep =>
             /\ Len(nb'.history) = Len(nb.history) + 1
             /\ nb'.observed = 1
             /\ nb'.success + nb'.error = 1
             /\ nb'.acks + nb'.nacks = 1
             /\ nb'.acks = 1 => mp3Q' = Tail(mp3Q)
             /\ nb'.nacks = 1 =>
                   /\ Len(mp3Q') = Len(mp3Q)
                   /\ \E i \in DOMAIN mp3Q' :
                         mp3Q'[i].mp3_fid = Head(mp3Q).mp3_fid]_vars

\* a descriptor was rejected twice and acknowledged at its third delivery
C39_Witness ==
    \E i, j, k \in DOMAIN nb.history :
        /\ i < j /\ j < k
        /\ nb.history[i].mp3_fid = nb.history[k].mp3_fid
        /\ nb.history[j].mp3_fid = nb.history[k].mp3_fid
        /\ nb.history[i].acks = 0
        /\ nb.history[j].acks = 0
        /\ nb.history[k].acks = 1

====
